---- MODULE Spec2Model ----
(***************************************************************************)
(* A model of the Simple IRC Client gateway: the WebSocket admission layer *)
(* (src/src/gateway.ts, two generations of the Gateway class), the         *)
(* per-connection session with its rate limiter (ClientConnection), and    *)
(* the line framing of the upstream IRC client (src/src/irc-client.ts,     *)
(* src/src/webirc.ts).                                                     *)
(*                                                                         *)
(* Each part has its own specification over the shared variables:          *)
(*   Spec          upgrade requests, WebSocket closes and stop()           *)
(*   SpecQuery     admission with the upstream target in the query string  *)
(*   SpecSession   inbound messages of one ClientConnection, rate limit    *)
(*   SpecFraming   data events of one upstream socket                      *)
(*   SpecLines     whole lines from the server                             *)
(*   SpecIrc       the life of an IrcClient                                *)
(*   SpecTeardown  teardown of sessions                                    *)
(*   SpecCommands  the commands of one session and its upstream            *)
(*   SpecCodec     character sets on the data path of an IrcClient         *)
(*   SpecHostname  the WEBIRC hostname made of the client's address        *)
(*   SpecKeepalive the timers of an IrcClient, with time                   *)
(***************************************************************************)
EXTENDS Integers, Sequences, FiniteSets, TLC

\* ------------------------------------------------------------------ bounds

\* config.limits.maxConnectionsPerIp / config.maxConnectionsPerIp as configured
MaxConnectionsPerIp == 2
\* config.limits.maxClients / config.maxClients as configured
MaxClients == 3
\* cap on clientIdCounter / connectionIdCounter: sessions ever created in a run
MaxClientIds == 4

\* config.limits.messageRateLimit as configured: messages per window
MessageRateLimit == 2
\* config.limits.messageRatePeriod as configured, in clock ticks
MessageRatePeriod == 2
\* the clock stops here
MaxTime == 3
\* cap on messageCount: inbound messages of one window
MaxArrivals == 3
\* cap on messages whose decryption is in progress
MaxPending == 2
\* cap on upstream clients one session creates
MaxUpstreams == 2
\* whole lines a server sends
MaxLines == 2
\* length of the byte streams a server sends
MaxStream == 6
\* the hard cap on the receive buffer (64 KiB), scaled to the streams above
BufferCap == 4

\* ------------------------------------------------------------- value sets

IPs == {"ip1", "ip2"}
ConfigPath == "/webirc"
Paths == {ConfigPath, "/wrong"}
\* An Origin header value is a string, here a sequence of characters; the
\* empty sequence is the absent header (undefined and '' are both falsy).
NoOrigin == <<>>
Origins == {NoOrigin, <<"a", ".", "b">>, <<"a", "x", "b">>}
\* config.allowedOrigins: an array of patterns
AllowLists == {<<>>, << <<"a", ".", "b">> >>, << <<"e">>, <<"*", ".", "b">> >>}
\* X-Forwarded-For: a comma-separated list, <<>> is the absent header
ForwardedFors == {<<>>, <<"ip2", "ip1">>}
\* X-Real-IP: "none" is the absent header
NoHeader == "none"
RealIps == {NoHeader, "ip2"}

Requests ==
    [path : Paths, origin : Origins, forwardedFor : ForwardedFors,
     realIp : RealIps, remoteAddress : IPs]

\* What is kept of the request handled last
Seen(request) ==
    [path |-> request.path, origin |-> request.origin,
     remoteAddress |-> request.remoteAddress]

NoRequest == [path |-> "none"]
NoResponse == [status |-> 0]

\* -------------------------------------------------------------- variables

VARIABLES
    variant,            \* which Gateway class of gateway.ts runs: "A" (7-166) or "B" (242-654)
    allowedOrigins,     \* config.allowedOrigins
    trustProxy,         \* config.trustProxy
    connectedClients,   \* Gateway.clients / Gateway.connectedClients: set of [id, ipAddress]
    connectionsPerIp,   \* Gateway.ipConnectionCounts / Gateway.connectionsPerIp: Map ip -> count
    clientIdCounter,    \* connectionIdCounter / clientIdCounter
    openSockets,        \* WebSockets whose 'close' event has not been delivered yet
    stopped,            \* stop() has run
    lastReq,            \* the upgrade request handled last
    lastResp,           \* what the gateway answered, and what it changed
    blockPrivateHosts,  \* config.blockPrivateHosts, the SSRF-protection flag
    allowedServers,     \* config.allowedServers of the query-string gateway: set of <<host, port>>
    upstreamOpened,     \* target of the upstream socket opened last, or NoTarget
    now,                \* Date.now()
    encryptionEnabled,  \* encryption.ts encryptionEnabled && encryptionKey
    allowAnyServer,     \* config.upstream.allowAnyServer
    wsState,            \* ClientConnection.ws.readyState
    destroyed,          \* ClientConnection.destroyed
    messageCount,       \* ClientConnection.messageCount
    messageWindowStart, \* ClientConnection.messageWindowStart
    irc,                \* ClientConnection.irc: 0 is null, else the IrcClient created k-th
    socket,             \* state of the socket of the IrcClient irc refers to
    ircEncoding,        \* IrcClient.encoding of that client
    ircCreated,         \* number of IrcClient objects the session has created
    orphans,            \* sockets ended or destroyed whose 'close' event is still to come
    pending,            \* accepted messages whose decryptMessage has not resolved yet
    window,             \* the current rate-limit window, observed from outside
    lastStep,           \* what the session's last handler did
    stream,             \* the bytes the IRC server sends over the socket's lifetime
    consumed,           \* how many of them 'data' events have delivered
    chunkStart,         \* how many had been delivered before the last 'data' event
    characterEncoding,  \* IrcClient.characterEncoding / IrcClient.encoding
    writable,           \* socket.writable
    ircSocket,          \* IrcClient.socket: "none" is null, else the state of the socket
    ircClient,          \* receiveBuffer, registered, the dead-peer timer, and what the
                        \* IrcClient has emitted and written
    options,            \* the options of the last IrcClient.connect
    pingIntervalTimer,  \* whether the keepalive interval is running
    staleSockets,       \* sockets IrcClient.destroy let go whose 'close' is still to come
    calls,              \* the last two calls made on the IrcClient
    opCount,            \* how many calls and timer ticks there have been
    sessions,           \* the ClientConnection of every admitted WebSocket, by id
    peerAddress,        \* the address of the browser's end of the WebSocket
    webircIp,           \* ClientConnection.clientIp: that address as text
    webircHostname,     \* the hostname of the WEBIRC parameters built from it
    untilPing,          \* ms until the keepalive interval ticks next, 0 when it is not running
    untilTimeout,       \* ms until the dead-peer timeout fires, 0 when it is not armed
    untilEstablished,   \* ms until the establishment timeout fires, -1 when it is not set
    peerAlive           \* whether the IRC server still answers on the upstream connection

gwVars == <<variant, allowedOrigins, trustProxy, connectedClients, connectionsPerIp,
            clientIdCounter, openSockets, stopped, lastReq, lastResp>>

queryVars == <<blockPrivateHosts, allowedServers, upstreamOpened>>

sessionVars == <<now, encryptionEnabled, allowAnyServer, wsState, destroyed, messageCount,
                 messageWindowStart, irc, socket, ircEncoding, ircCreated, orphans, pending,
                 window, lastStep>>

lifecycleVars == <<options, pingIntervalTimer, staleSockets, calls, opCount>>

framingVars == <<stream, consumed, chunkStart, characterEncoding, writable, ircSocket, ircClient,
                 lifecycleVars>>

teardownVars == <<sessions>>

hostnameVars == <<peerAddress, webircIp, webircHostname>>

timerVars == <<untilPing, untilTimeout, untilEstablished, peerAlive>>

\* what the actions of the admission layer of gateway.ts leave alone
notGateway == <<queryVars, sessionVars, framingVars, teardownVars, hostnameVars, timerVars>>
\* what the actions of a session leave alone
notSession == <<gwVars, queryVars, framingVars, teardownVars, hostnameVars, timerVars>>
\* what the socket handlers of an IrcClient leave alone
notFraming == <<gwVars, queryVars, sessionVars, teardownVars, hostnameVars, timerVars>>

vars == <<gwVars, queryVars, sessionVars, framingVars, teardownVars, hostnameVars, timerVars>>

\* ------------------------------------------------------------ Map helpers

EmptyMap == [k \in {} |-> 0]
MapGet(m, k, d) == IF k \in DOMAIN m THEN m[k] ELSE d
MapSet(m, k, v) == [x \in (DOMAIN m) \cup {k} |-> IF x = k THEN v ELSE m[x]]
MapDelete(m, k) == [x \in (DOMAIN m) \ {k} |-> m[x]]

\* Number of live sessions of the registry whose client IP is ip
SessionsOf(clients, ip) == Cardinality({c \in clients : c.ipAddress = ip})

\* ------------------------------------------------- Gateway A (lines 7-166)

\* new RegExp('^' + allowed.replace(/\*/g, '.*') + '$').test(origin):
\* '*' becomes '.*', and an unescaped '.' of the pattern is the regex "any character"
RECURSIVE RegExpTest(_, _)
RegExpTest(pattern, s) ==
    IF pattern = <<>> THEN s = <<>>
    ELSE IF Head(pattern) = "*"
         THEN RegExpTest(Tail(pattern), s) \/ (s # <<>> /\ RegExpTest(pattern, Tail(s)))
    ELSE IF Head(pattern) = "."
         THEN s # <<>> /\ RegExpTest(Tail(pattern), Tail(s))
    ELSE s # <<>> /\ Head(s) = Head(pattern) /\ RegExpTest(Tail(pattern), Tail(s))

\* allowedOrigins.some(...) of isOriginAllowed
OriginMatches(allowed, origin) ==
    IF \E i \in 1..Len(allowed) : allowed[i] = "*"
    THEN RegExpTest(allowed, origin)
    ELSE allowed = origin

isOriginAllowed(origin) ==
    IF Len(allowedOrigins) = 0 THEN TRUE
    ELSE \E i \in 1..Len(allowedOrigins) : OriginMatches(allowedOrigins[i], origin)

\* Gateway.getClientIp
getClientIp(request) ==
    IF request.forwardedFor # <<>> THEN Head(request.forwardedFor)
    ELSE IF request.realIp # NoHeader THEN request.realIp
    ELSE request.remoteAddress

checkConnectionLimitOffByOne(ip) ==
    MapGet(connectionsPerIp, ip, 0) <= MaxConnectionsPerIp

\* Gateway.checkConnectionLimit
checkConnectionLimit(ip) ==
    MapGet(connectionsPerIp, ip, 0) < MaxConnectionsPerIp

handleUpgradeStatusOriginFirst(request) ==
    IF request.origin # NoOrigin /\ ~isOriginAllowed(request.origin) THEN 403
    ELSE IF request.path # ConfigPath THEN 404
    ELSE IF ~checkConnectionLimit(getClientIp(request)) THEN 429
    ELSE IF Cardinality(connectedClients) >= MaxClients THEN 503
    ELSE 101

\* The status line handleUpgrade answers with; 101 is the completed upgrade
handleUpgradeStatus(request) ==
    IF request.path # ConfigPath THEN 404
    ELSE IF request.origin # NoOrigin /\ ~isOriginAllowed(request.origin) THEN 403
    ELSE IF ~checkConnectionLimit(getClientIp(request)) THEN 429
    ELSE IF Cardinality(connectedClients) >= MaxClients THEN 503
    ELSE 101

\* ----------------------------------------------- Gateway B (lines 242-654)

\* clientIp of handleWebSocketUpgrade
clientIpOfUpgrade(request) ==
    IF request.forwardedFor # <<>> THEN Head(request.forwardedFor)
    ELSE request.remoteAddress

handleWebSocketUpgradeStatusLateCap(request) ==
    IF request.path # ConfigPath THEN 404
    ELSE IF MapGet(connectionsPerIp, clientIpOfUpgrade(request), 0) >= MaxConnectionsPerIp THEN 429
    ELSE IF Cardinality(connectedClients) > MaxClients THEN 503
    ELSE 101

\* The status line handleWebSocketUpgrade answers with
handleWebSocketUpgradeStatus(request) ==
    IF request.path # ConfigPath THEN 404
    ELSE IF MapGet(connectionsPerIp, clientIpOfUpgrade(request), 0) >= MaxConnectionsPerIp THEN 429
    ELSE IF Cardinality(connectedClients) >= MaxClients THEN 503
    ELSE 101

incrementIpConnectionCount(counts, ipAddress) ==
    MapSet(counts, ipAddress, MapGet(counts, ipAddress, 0) + 1)

decrementIpConnectionCountEarlyDelete(counts, ipAddress) ==
    LET newCount == MapGet(counts, ipAddress, 1) - 1
    IN  IF newCount <= 1 THEN MapDelete(counts, ipAddress)
        ELSE MapSet(counts, ipAddress, newCount)

decrementIpConnectionCount(counts, ipAddress) ==
    LET newCount == MapGet(counts, ipAddress, 1) - 1
    IN  IF newCount <= 0 THEN MapDelete(counts, ipAddress)
        ELSE MapSet(counts, ipAddress, newCount)

\* ---------------------------------------------------------------- actions

\* What the handler answered: the status, the client IP it resolved, the live
\* sessions of that IP and the registry size it found, whether the registry
\* changed, and the status the same handler gives the same request in the same
\* state without its X-Forwarded-For and X-Real-IP headers
Response(request, status, ip, statusNoHeader) ==
    [status |-> status,
     clientIp |-> ip,
     ipSessionsBefore |-> SessionsOf(connectedClients, ip),
     sizeBefore |-> Cardinality(connectedClients),
     created |-> connectedClients' # connectedClients,
     statusNoHeader |-> statusNoHeader]

WithoutProxyHeaders(request) ==
    [request EXCEPT !.forwardedFor = <<>>, !.realIp = NoHeader]

\* Gateway A: onConnection, up to the registration of the 'close' handler
onConnection(clientIp) ==
    LET client == [id |-> clientIdCounter + 1, ipAddress |-> clientIp]
    IN  /\ connectionsPerIp' =
               MapSet(connectionsPerIp, clientIp, MapGet(connectionsPerIp, clientIp, 0) + 1)
        /\ clientIdCounter' = clientIdCounter + 1
        /\ connectedClients' = connectedClients \cup {client}
        /\ openSockets' = openSockets \cup {client}

\* Gateway B: handleNewClient
handleNewClient(clientIp) ==
    LET client == [id |-> clientIdCounter + 1, ipAddress |-> clientIp]
    IN  /\ clientIdCounter' = clientIdCounter + 1
        /\ connectedClients' = connectedClients \cup {client}
        /\ connectionsPerIp' = incrementIpConnectionCount(connectionsPerIp, clientIp)
        /\ openSockets' = openSockets \cup {client}

Reject ==
    UNCHANGED <<clientIdCounter, connectedClients, connectionsPerIp, openSockets>>

\* handleUpgrade that counts the connection for its IP before the test of the
\* global cap
HandleUpgradeCountsEarly(request) ==
    /\ variant = "A"
    /\ ~stopped
    /\ clientIdCounter < MaxClientIds
    /\ LET status == handleUpgradeStatus(request)
           ip == getClientIp(request)
       IN  /\ IF status = 101 THEN onConnection(ip)
              ELSE IF status = 503
              THEN /\ connectionsPerIp' = incrementIpConnectionCount(connectionsPerIp, ip)
                   /\ UNCHANGED <<clientIdCounter, connectedClients, openSockets>>
              ELSE Reject
           /\ lastReq' = Seen(request)
           /\ lastResp' = Response(request, status, ip,
                                   handleUpgradeStatus(WithoutProxyHeaders(request)))
    /\ UNCHANGED <<variant, allowedOrigins, trustProxy, stopped>>
    /\ UNCHANGED notGateway

\* Gateway A: handleUpgrade, with the callback of wss.handleUpgrade
HandleUpgrade(request) ==
    /\ variant = "A"
    /\ ~stopped
    /\ clientIdCounter < MaxClientIds
    /\ LET status == handleUpgradeStatus(request)
           ip == getClientIp(request)
       IN  /\ IF status = 101 THEN onConnection(ip) ELSE Reject
           /\ lastReq' = Seen(request)
           /\ lastResp' = Response(request, status, ip,
                                   handleUpgradeStatus(WithoutProxyHeaders(request)))
    /\ UNCHANGED <<variant, allowedOrigins, trustProxy, stopped>>
    /\ UNCHANGED notGateway

\* Gateway B: handleWebSocketUpgrade, with the callback of webSocketServer.handleUpgrade
HandleWebSocketUpgrade(request) ==
    /\ variant = "B"
    /\ ~stopped
    /\ clientIdCounter < MaxClientIds
    /\ LET status == handleWebSocketUpgradeStatus(request)
           ip == clientIpOfUpgrade(request)
       IN  /\ IF status = 101 THEN handleNewClient(ip) ELSE Reject
           /\ lastReq' = Seen(request)
           /\ lastResp' = Response(request, status, ip,
                                   handleWebSocketUpgradeStatus(WithoutProxyHeaders(request)))
    /\ UNCHANGED <<variant, allowedOrigins, trustProxy, stopped>>
    /\ UNCHANGED notGateway

\* Gateway A: the ws 'close' handler installed by onConnection
OnWsCloseA(client) ==
    /\ variant = "A"
    /\ client \in openSockets
    /\ openSockets' = openSockets \ {client}
    /\ connectedClients' = {c \in connectedClients : c.id # client.id}
    /\ LET newCount == MapGet(connectionsPerIp, client.ipAddress, 1) - 1
       IN  connectionsPerIp' =
               IF newCount <= 0 THEN MapDelete(connectionsPerIp, client.ipAddress)
               ELSE MapSet(connectionsPerIp, client.ipAddress, newCount)
    /\ UNCHANGED <<variant, allowedOrigins, trustProxy, clientIdCounter, stopped,
                   lastReq, lastResp>>
    /\ UNCHANGED notGateway

\* Gateway B: handleClientDisconnect, run by the ws 'close' event
HandleClientDisconnect(client) ==
    /\ variant = "B"
    /\ client \in openSockets
    /\ openSockets' = openSockets \ {client}
    /\ connectedClients' = {c \in connectedClients : c.id # client.id}
    /\ connectionsPerIp' = decrementIpConnectionCount(connectionsPerIp, client.ipAddress)
    /\ UNCHANGED <<variant, allowedOrigins, trustProxy, clientIdCounter, stopped,
                   lastReq, lastResp>>
    /\ UNCHANGED notGateway

\* Gateway.stop of either class: every WebSocket is closed (its 'close' event
\* comes later), both maps are cleared, the servers are closed
Stop ==
    /\ ~stopped
    /\ stopped' = TRUE
    /\ connectedClients' = {}
    /\ connectionsPerIp' = EmptyMap
    /\ UNCHANGED <<variant, allowedOrigins, trustProxy, clientIdCounter, openSockets,
                   lastReq, lastResp>>
    /\ UNCHANGED notGateway

NoStep == [op |-> "none"]
NoWindow == [start |-> 0, arrived |-> 0, accepted |-> 0, dispatched |-> 0, malformed |-> FALSE]

NoClient == [receiveBuffer |-> <<>>, registered |-> FALSE, timeoutArmed |-> FALSE,
             events |-> <<>>, written |-> <<>>]

\* no connect has been called
NoOptions == [nick |-> <<>>, username |-> <<>>, realname |-> <<>>, password |-> <<>>,
              webirc |-> <<>>, tls |-> FALSE, encoding |-> "utf8"]

LifecycleIdle ==
    /\ options = NoOptions
    /\ pingIntervalTimer = FALSE
    /\ staleSockets = 0
    /\ calls = <<>>
    /\ opCount = 0

FramingIdle ==
    /\ LifecycleIdle
    /\ stream = <<>>
    /\ consumed = 0
    /\ chunkStart = 0
    /\ characterEncoding = "utf8"
    /\ writable = FALSE
    /\ ircSocket = "none"
    /\ ircClient = NoClient

SessionIdle ==
    /\ now = 0
    /\ encryptionEnabled = FALSE
    /\ allowAnyServer = TRUE
    /\ wsState = "CLOSED"
    /\ destroyed = TRUE
    /\ messageCount = 0
    /\ messageWindowStart = 0
    /\ irc = 0
    /\ socket = "none"
    /\ ircEncoding = "utf8"
    /\ ircCreated = 0
    /\ orphans = 0
    /\ pending = <<>>
    /\ window = NoWindow
    /\ lastStep = NoStep

\* no WebSocket has been admitted
TeardownIdle == sessions = <<>>

\* no address has been turned into a hostname
NoAddress == [kind |-> "none"]

\* no timer of an IrcClient is followed in time
TimersIdle ==
    /\ untilPing = 0
    /\ untilTimeout = 0
    /\ untilEstablished = -1
    /\ peerAlive = TRUE

HostnameIdle ==
    /\ peerAddress = NoAddress
    /\ webircIp = <<>>
    /\ webircHostname = <<>>

QueryIdle ==
    /\ blockPrivateHosts = FALSE
    /\ allowedServers = {}
    /\ upstreamOpened = [host |-> "none"]

Init ==
    /\ TeardownIdle
    /\ HostnameIdle
    /\ TimersIdle
    /\ QueryIdle
    /\ SessionIdle
    /\ FramingIdle
    /\ variant \in {"A", "B"}
    /\ allowedOrigins \in AllowLists
    /\ trustProxy \in BOOLEAN
    /\ connectedClients = {}
    /\ connectionsPerIp = EmptyMap
    /\ clientIdCounter = 0
    /\ openSockets = {}
    /\ stopped = FALSE
    /\ lastReq = NoRequest
    /\ lastResp = NoResponse

Next ==
    \/ \E request \in Requests : HandleUpgrade(request)
    \/ \E request \in Requests : HandleWebSocketUpgrade(request)
    \/ \E client \in openSockets : OnWsCloseA(client)
    \/ \E client \in openSockets : HandleClientDisconnect(client)
    \/ Stop

Spec == Init /\ [][Next]_vars

\* ------------------------------------------------------- admission claims

Handled == lastResp.status # 0
Rejections == {403, 404, 429, 503}

\* C1: for every IP the live sessions admitted from it never exceed
\* maxConnectionsPerIp; a request that finds its IP at the maximum creates no
\* session and is answered 429 (404 or 403 only when the earlier path or origin
\* check already rejected it).
C1_PerIpCap ==
    /\ \A ip \in IPs : SessionsOf(connectedClients, ip) <= MaxConnectionsPerIp
    /\ (Handled /\ lastResp.ipSessionsBefore >= MaxConnectionsPerIp) =>
          /\ ~lastResp.created
          /\ lastResp.status \in {404, 403, 429}
          /\ (lastResp.status = 404) <=> (lastReq.path # ConfigPath)

C1_Witness ==
    /\ lastResp.status = 429
    /\ lastResp.ipSessionsBefore = MaxConnectionsPerIp
    /\ SessionsOf(connectedClients, lastResp.clientIp) = MaxConnectionsPerIp
    /\ Cardinality(openSockets) < clientIdCounter

\* C2: the registry never holds more than maxClients sessions; a request that
\* finds the registry full creates no session and is answered 503 unless an
\* earlier check (path, origin, per-IP cap) already rejected it.
C2_GlobalCap ==
    /\ Cardinality(connectedClients) <= MaxClients
    /\ (Handled /\ lastResp.sizeBefore >= MaxClients) =>
          /\ ~lastResp.created
          /\ lastResp.status \in Rejections
          /\ (lastReq.path = ConfigPath /\ lastResp.status # 403
              /\ lastResp.ipSessionsBefore < MaxConnectionsPerIp) => lastResp.status = 503

C2_Witness ==
    /\ lastResp.status = 503
    /\ lastResp.sizeBefore = MaxClients
    /\ Cardinality(connectedClients) = MaxClients

\* C3: for every IP the counter table's value (absent = 0) equals the number
\* of live sessions of the registry with that client IP.
C3_CounterMatchesSessions ==
    \A ip \in IPs : MapGet(connectionsPerIp, ip, 0) = SessionsOf(connectedClients, ip)

\* a session was admitted and torn down, and others of its IP are still live
C3_Witness ==
    \E ip \in IPs :
        /\ MapGet(connectionsPerIp, ip, 0) = 1
        /\ \E c \in connectedClients : c.ipAddress = ip
        /\ \E id \in 1..clientIdCounter :
              \A c \in openSockets : c.id # id

\* C4: a request on another path than the configured one is answered 404 and
\* creates no session, whatever its origin, its IP's count and the registry size.
C4_WrongPath404 ==
    (Handled /\ lastReq.path # ConfigPath) =>
        (lastResp.status = 404 /\ ~lastResp.created)

\* the wrong path met a full IP and a non-matching origin, and still got 404
C4_Witness ==
    /\ Handled
    /\ lastReq.path # ConfigPath
    /\ lastResp.status = 404
    /\ lastResp.ipSessionsBefore >= MaxConnectionsPerIp
    /\ lastReq.origin # NoOrigin
    /\ ~isOriginAllowed(lastReq.origin)

\* C5: a request on the configured path passes the origin check iff the
\* allowlist is empty or it carries an Origin that matches an entry; with a
\* non-empty allowlist a missing or non-matching Origin is answered 403.
C5_OriginAdmission ==
    (variant = "A" /\ Handled /\ lastReq.path = ConfigPath) =>
        ((lastResp.status # 403) <=>
            \/ Len(allowedOrigins) = 0
            \/ /\ lastReq.origin # NoOrigin
               /\ \E i \in 1..Len(allowedOrigins) :
                      OriginMatches(allowedOrigins[i], lastReq.origin))

\* C6: with trustProxy disabled the client IP is the transport-level peer
\* address, and the answer is the one the same request gets without its
\* forwarding headers.
C6_PeerAddressWhenUntrusted ==
    (~trustProxy /\ Handled) =>
        /\ lastResp.clientIp = lastReq.remoteAddress
        /\ lastResp.status = lastResp.statusNoHeader

\* ------------------------------------ admission with a query-string target
\* The gateway that gateway.test.ts drives takes the upstream host and port
\* from the query string of the upgrade request and opens the upstream
\* connection at admission.  Its handler is modelled from the design text
\* (component design of the Gateway, handleUpgrade).

V4(a, b, c, d) == [kind |-> "ipv4", octets |-> <<a, b, c, d>>]
V6(g) == [kind |-> "ipv6", groups |-> g]
HostName(n) == [kind |-> "name", name |-> n]

NoHost == [kind |-> "missing"]
NoPort == "none"
NoTarget == [host |-> "none"]

\* the upstream hosts a query string may name
QueryHosts ==
    {V4(127, 0, 0, 1), V4(10, 0, 0, 1), V4(172, 16, 0, 1), V4(172, 31, 255, 254),
     V4(172, 32, 0, 1), V4(192, 168, 1, 1), V4(169, 254, 0, 1), V4(0, 0, 0, 0),
     HostName("localhost"), HostName("irc.libera.chat"),
     V6(<<0, 0, 0, 0, 0, 0, 0, 1>>)}

IrcPort == "6667"

QueryRequest(path, host, port) ==
    [path |-> path, origin |-> NoOrigin, host |-> host, port |-> port,
     remoteAddress |-> "ip1"]

\* every host on the configured path, and one request each with a wrong
\* path, without host and without port
QueryRequests ==
    {QueryRequest(ConfigPath, h, IrcPort) : h \in QueryHosts}
    \cup {QueryRequest("/wrong", V4(127, 0, 0, 1), IrcPort),
          QueryRequest(ConfigPath, NoHost, IrcPort),
          QueryRequest(ConfigPath, HostName("irc.libera.chat"), NoPort)}

ServerAllowLists ==
    {{}, {<<HostName("irc.libera.chat"), IrcPort>>, <<V4(127, 0, 0, 1), IrcPort>>}}

IsPrivateHostNarrow172(host) ==
    IF host.kind = "name" THEN host.name = "localhost"
    ELSE IF host.kind = "ipv4" THEN
        LET o == host.octets
        IN  \/ o[1] = 127
            \/ o[1] = 10
            \/ o[1] = 172 /\ o[2] = 16
            \/ o[1] = 192 /\ o[2] = 168
            \/ o[1] = 169 /\ o[2] = 254
            \/ o = <<0, 0, 0, 0>>
    ELSE FALSE

\* literal loopback, private, link-local and unspecified addresses, and the
\* literal name localhost
IsPrivateHost(host) ==
    IF host.kind = "name" THEN host.name = "localhost"
    ELSE IF host.kind = "ipv4" THEN
        LET o == host.octets
        IN  \/ o[1] = 127
            \/ o[1] = 10
            \/ o[1] = 172 /\ o[2] >= 16 /\ o[2] <= 31
            \/ o[1] = 192 /\ o[2] = 168
            \/ o[1] = 169 /\ o[2] = 254
            \/ o = <<0, 0, 0, 0>>
    ELSE IF host.kind = "ipv6" THEN
        LET g == host.groups
        IN  \/ g = <<0, 0, 0, 0, 0, 0, 0, 1>>
            \/ g = <<0, 0, 0, 0, 0, 0, 0, 0>>
            \/ g[1] >= 64512 /\ g[1] <= 65023
            \/ g[1] >= 65152 /\ g[1] <= 65215
    ELSE FALSE

\* handleUpgrade of the design text: path, origin, target, per-IP cap, global cap
queryUpgradeStatus(request) ==
    IF request.path # ConfigPath THEN 404
    ELSE IF Len(allowedOrigins) # 0
            /\ (request.origin = NoOrigin \/ ~isOriginAllowed(request.origin)) THEN 403
    ELSE IF request.host = NoHost \/ request.port = NoPort THEN 400
    ELSE IF allowedServers # {} /\ <<request.host, request.port>> \notin allowedServers THEN 403
    ELSE IF blockPrivateHosts /\ IsPrivateHost(request.host) THEN 403
    ELSE IF MapGet(connectionsPerIp, request.remoteAddress, 0) >= MaxConnectionsPerIp THEN 429
    ELSE IF Cardinality(connectedClients) >= MaxClients THEN 503
    ELSE 101

QueryHandleUpgrade(request) ==
    /\ variant = "Q"
    /\ ~stopped
    /\ clientIdCounter < MaxClientIds
    /\ LET status == queryUpgradeStatus(request)
           ip == request.remoteAddress
       IN  /\ IF status = 101
              THEN /\ handleNewClient(ip)
                   /\ upstreamOpened' = [host |-> request.host, port |-> request.port]
              ELSE /\ Reject
                   /\ UNCHANGED upstreamOpened
           /\ lastReq' = [path |-> request.path, origin |-> request.origin,
                          remoteAddress |-> ip, host |-> request.host,
                          port |-> request.port]
           /\ lastResp' = Response(request, status, ip, status)
    /\ UNCHANGED <<variant, allowedOrigins, trustProxy, stopped,
                   blockPrivateHosts, allowedServers>>
    /\ UNCHANGED <<sessionVars, framingVars, teardownVars, hostnameVars, timerVars>>

\* removeSession of the design text, run by the WebSocket's close
QueryRemoveSession(client) ==
    /\ variant = "Q"
    /\ client \in openSockets
    /\ openSockets' = openSockets \ {client}
    /\ connectedClients' = {c \in connectedClients : c.id # client.id}
    /\ connectionsPerIp' = decrementIpConnectionCount(connectionsPerIp, client.ipAddress)
    /\ UNCHANGED <<variant, allowedOrigins, trustProxy, clientIdCounter, stopped,
                   lastReq, lastResp>>
    /\ UNCHANGED <<queryVars, sessionVars, framingVars, teardownVars, hostnameVars, timerVars>>

QueryInit ==
    /\ TeardownIdle
    /\ HostnameIdle
    /\ TimersIdle
    /\ SessionIdle
    /\ FramingIdle
    /\ variant = "Q"
    /\ allowedOrigins = <<>>
    /\ trustProxy = FALSE
    /\ connectedClients = {}
    /\ connectionsPerIp = EmptyMap
    /\ clientIdCounter = 0
    /\ openSockets = {}
    /\ stopped = FALSE
    /\ lastReq = NoRequest
    /\ lastResp = NoResponse
    /\ blockPrivateHosts \in BOOLEAN
    /\ allowedServers \in ServerAllowLists
    /\ upstreamOpened = NoTarget

QueryNext ==
    \/ \E request \in QueryRequests : QueryHandleUpgrade(request)
    \/ \E client \in openSockets : QueryRemoveSession(client)

SpecQuery == QueryInit /\ [][QueryNext]_vars

\* the six targets the SSRF tests name, and every literal of the model that is
\* loopback, private, link-local or unspecified
NamedPrivateTargets ==
    {V4(127, 0, 0, 1), V4(10, 0, 0, 1), V4(172, 16, 0, 1), V4(192, 168, 1, 1),
     V4(0, 0, 0, 0), HostName("localhost")}
PrivateTargets ==
    NamedPrivateTargets \cup
    {V4(172, 31, 255, 254), V4(169, 254, 0, 1), V6(<<0, 0, 0, 0, 0, 0, 0, 1>>)}

\* the request passed every check that comes before or after the SSRF check
OtherwiseAdmissible ==
    /\ Handled
    /\ lastReq.path = ConfigPath
    /\ lastReq.host # NoHost
    /\ lastReq.port # NoPort
    /\ allowedServers = {} \/ <<lastReq.host, lastReq.port>> \in allowedServers
    /\ lastResp.ipSessionsBefore < MaxConnectionsPerIp
    /\ lastResp.sizeBefore < MaxClients

Malformed == [type |-> "malformed", arg |-> "none"]
ClientMessages ==
    { [type |-> "connect", arg |-> "listed"], [type |-> "connect", arg |-> "unlisted"],
      [type |-> "disconnect", arg |-> "none"], [type |-> "raw", arg |-> "line"],
      [type |-> "encoding", arg |-> "latin1"], [type |-> "encoding", arg |-> "bogus"],
      Malformed }

Min(a, b) == IF a < b THEN a ELSE b

\* checkRateLimit with the reset test `>=` instead of `>`
checkRateLimitEagerReset(count, windowStart, t) ==
    LET reset == t - windowStart >= MessageRatePeriod
        n == (IF reset THEN 0 ELSE count) + 1
    IN [messageCount |-> n,
        messageWindowStart |-> IF reset THEN t ELSE windowStart,
        ok |-> n <= MessageRateLimit]

\* checkRateLimit counting only the messages it lets through
checkRateLimitCountAccepted(count, windowStart, t) ==
    LET reset == t - windowStart > MessageRatePeriod
        n == IF reset THEN 0 ELSE count
    IN [messageCount |-> IF n < MessageRateLimit THEN n + 1 ELSE 0,
        messageWindowStart |-> IF reset THEN t ELSE windowStart,
        ok |-> n < MessageRateLimit]

\* ClientConnection.checkRateLimit: the fields after the call and the value returned
checkRateLimit(count, windowStart, t) ==
    LET reset == t - windowStart > MessageRatePeriod
        n == (IF reset THEN 0 ELSE count) + 1
    IN [messageCount |-> n,
        messageWindowStart |-> IF reset THEN t ELSE windowStart,
        ok |-> n <= MessageRateLimit]

\* ClientConnection.send: the message goes out only on an open WebSocket
send(events) == IF wsState = "OPEN" THEN events ELSE <<>>

\* IrcClient.isConnected
isConnected(sock) == sock \in {"connecting", "open"}

\* ClientConnection.isServerAllowed
isServerAllowed(server) == allowAnyServer \/ server = "listed"

isValidEncoding(encoding) == encoding \in {"utf8", "latin1"}

\* IrcClient.quit as the session sees it: QUIT is written and echoed as a 'raw' event,
\* the socket is ended and its 'close' event comes later
quit(sock) ==
    IF isConnected(sock)
    THEN [sent |-> send(<<"server:raw">>), orphans |-> orphans + 1]
    ELSE [sent |-> <<>>, orphans |-> orphans]

Unchanged == [irc |-> irc, socket |-> socket, ircEncoding |-> ircEncoding,
              ircCreated |-> ircCreated, orphans |-> orphans, sent |-> <<>>,
              dispatched |-> TRUE]

\* ClientConnection.handleConnect
handleConnect(server) ==
    IF ~isServerAllowed(server)
    THEN [Unchanged EXCEPT !.sent = send(<<"gateway:error:Server not allowed">>)]
    ELSE [Unchanged EXCEPT !.irc = ircCreated + 1, !.ircCreated = ircCreated + 1,
                           !.socket = "connecting", !.ircEncoding = "utf8",
                           !.orphans = IF irc # 0 /\ isConnected(socket)
                                       THEN orphans + 1 ELSE orphans]

\* ClientConnection.handleDisconnect
handleDisconnect ==
    IF irc # 0
    THEN [Unchanged EXCEPT !.irc = 0, !.socket = "none", !.sent = quit(socket).sent,
                           !.orphans = quit(socket).orphans]
    ELSE Unchanged

\* ClientConnection.handleRaw: IrcClient.sendRaw writes the line and echoes it
handleRaw ==
    IF irc # 0 /\ isConnected(socket)
    THEN [Unchanged EXCEPT !.sent = send(<<"server:raw">>)]
    ELSE Unchanged

\* ClientConnection.handleEncoding
handleEncoding(encoding) ==
    IF ~isValidEncoding(encoding)
    THEN [Unchanged EXCEPT !.sent = send(<<"gateway:error:Invalid encoding">>)]
    ELSE IF irc # 0 THEN [Unchanged EXCEPT !.ircEncoding = encoding]
    ELSE Unchanged

\* the rest of onMessage once decryptMessage has resolved: handleCommand for a
\* 'sic-client-event' message, nothing for any other text
handleCommand(msg) ==
    CASE msg.type = "connect" -> handleConnect(msg.arg)
      [] msg.type = "disconnect" -> handleDisconnect
      [] msg.type = "raw" -> handleRaw
      [] msg.type = "encoding" -> handleEncoding(msg.arg)
      [] OTHER -> [Unchanged EXCEPT !.dispatched = FALSE]

Apply(effect) ==
    /\ irc' = effect.irc
    /\ socket' = effect.socket
    /\ ircEncoding' = effect.ircEncoding
    /\ ircCreated' = effect.ircCreated
    /\ orphans' = effect.orphans

\* no message: the step is not the handling of one
NoMessage == [type |-> "none", arg |-> "none"]

\* what a handler did: op names it, msg is the message given to handleCommand (if any)
Step(op, msg, sent, dispatched, expired) ==
    [op |-> op, msg |-> msg, sent |-> sent, dispatched |-> dispatched, ircChanged |-> irc' # irc,
     wsClosed |-> wsState' # wsState, windowExpired |-> expired]

PendingConnects == Cardinality({i \in 1..Len(pending) : pending[i].msg.type = "connect"})

\* the window as an observer counts it: a message arriving more than
\* MessageRatePeriod after the window's start opens the next window
WindowExpired == now - window.start > MessageRatePeriod

WindowAt(expired) ==
    IF expired THEN [NoWindow EXCEPT !.start = now] ELSE window

\* ws 'message' -> ClientConnection.onMessage, up to its first suspension in
\* decryptMessage; without encryption decryptMessage resolves before any other event
\* is handled, so the command is handled in the same step
OnMessage(msg) ==
    /\ wsState \in {"OPEN", "CLOSING"}
    /\ messageCount < MaxArrivals \/ WindowExpired
    /\ msg.type = "connect" => ircCreated + PendingConnects < MaxUpstreams
    /\ Len(pending) < MaxPending
    /\ UNCHANGED <<now, encryptionEnabled, allowAnyServer, wsState, destroyed>>
    /\ IF destroyed
       THEN /\ UNCHANGED <<messageCount, messageWindowStart, irc, socket, ircEncoding,
                           ircCreated, orphans, pending, window>>
            /\ lastStep' = Step("ignored", NoMessage, <<>>, FALSE, FALSE)
       ELSE LET r == checkRateLimit(messageCount, messageWindowStart, now)
                expired == WindowExpired
                w == WindowAt(expired)
                old == [i \in 1..Len(pending) |->
                            [pending[i] EXCEPT !.cur = @ /\ ~expired]]
                effect == handleCommand(msg)
            IN /\ messageCount' = r.messageCount
               /\ messageWindowStart' = r.messageWindowStart
               /\ IF ~r.ok
                  THEN /\ Apply(Unchanged)
                       /\ pending' = old
                       /\ window' = [w EXCEPT !.arrived = @ + 1]
                       /\ lastStep' = Step("drop", NoMessage, send(<<"gateway:error:Rate limit exceeded">>),
                                           FALSE, expired)
                  ELSE IF encryptionEnabled
                  THEN /\ Apply(Unchanged)
                       /\ pending' = Append(old, [msg |-> msg, cur |-> TRUE])
                       /\ window' = [w EXCEPT !.arrived = @ + 1, !.accepted = @ + 1,
                                              !.malformed = @ \/ msg = Malformed]
                       /\ lastStep' = Step("accept", NoMessage, <<>>, FALSE, expired)
                  ELSE /\ Apply(effect)
                       /\ pending' = old
                       /\ window' = [w EXCEPT !.arrived = @ + 1, !.accepted = @ + 1,
                                              !.malformed = @ \/ msg = Malformed,
                                              !.dispatched = @ + IF effect.dispatched
                                                                 THEN 1 ELSE 0]
                       /\ lastStep' = Step("accept", msg, effect.sent, effect.dispatched, expired)
    /\ UNCHANGED notSession

\* crypto.subtle.decrypt resolves for one of the messages in progress and onMessage
\* resumes
DecryptDone(i) ==
    /\ i \in 1..Len(pending)
    /\ UNCHANGED <<now, encryptionEnabled, allowAnyServer, wsState, destroyed,
                   messageCount, messageWindowStart>>
    /\ LET p == pending[i]
           effect == handleCommand(p.msg)
       IN /\ Apply(effect)
          /\ pending' = [j \in 1..(Len(pending) - 1) |->
                            IF j < i THEN pending[j] ELSE pending[j + 1]]
          /\ window' = [window EXCEPT !.dispatched = @ + IF p.cur /\ effect.dispatched
                                                          THEN 1 ELSE 0]
          /\ lastStep' = Step("resume", p.msg, effect.sent, effect.dispatched, FALSE)
    /\ UNCHANGED notSession

\* ClientConnection.destroy, with the WebSocket left in state ws
destroy(ws, op) ==
    /\ IF destroyed
       THEN /\ Apply(Unchanged)
            /\ wsState' = ws
            /\ lastStep' = Step(op, NoMessage, <<>>, FALSE, FALSE)
       ELSE LET effect == handleDisconnect
            IN /\ Apply(effect)
               /\ wsState' = IF ws = "OPEN" THEN "CLOSING" ELSE ws
               /\ lastStep' = Step(op, NoMessage, effect.sent, FALSE, FALSE)
    /\ destroyed' = TRUE
    /\ UNCHANGED <<now, encryptionEnabled, allowAnyServer, messageCount,
                   messageWindowStart, pending, window>>
    /\ UNCHANGED notSession

\* ws 'close' -> ClientConnection.onClose
OnClose ==
    /\ wsState \in {"OPEN", "CLOSING"}
    /\ destroy("CLOSED", "close")

\* Gateway.stop destroys the session while its WebSocket is open
StopDestroy ==
    /\ wsState = "OPEN"
    /\ destroy("OPEN", "destroy")

\* the socket of the current IrcClient connects: IrcClient.onSocketConnect emits
\* 'socket_connected' and echoes CAP, NICK and USER
OnSocketConnect ==
    /\ irc # 0
    /\ socket = "connecting"
    /\ socket' = "open"
    /\ UNCHANGED <<now, encryptionEnabled, allowAnyServer, wsState, destroyed, messageCount,
                   messageWindowStart, irc, ircEncoding, ircCreated, orphans, pending,
                   window>>
    /\ lastStep' = Step("upstream", NoMessage, send(<<"irc:socket_connected", "server:raw",
                                           "server:raw", "server:raw">>), FALSE, FALSE)
    /\ UNCHANGED notSession

\* the socket of the current IrcClient closes: IrcClient.onSocketClose
OnSocketClose ==
    /\ irc # 0
    /\ isConnected(socket)
    /\ socket' = "closed"
    /\ UNCHANGED <<now, encryptionEnabled, allowAnyServer, wsState, destroyed, messageCount,
                   messageWindowStart, irc, ircEncoding, ircCreated, orphans, pending,
                   window>>
    /\ lastStep' = Step("upstream", NoMessage, send(<<"irc:socket_close", "irc:close">>), FALSE, FALSE)
    /\ UNCHANGED notSession

\* the 'close' event of a socket the session has ended or replaced: the handlers of
\* setupIrcHandlers are still attached to its IrcClient
OnOrphanClose ==
    /\ orphans > 0
    /\ orphans' = orphans - 1
    /\ UNCHANGED <<now, encryptionEnabled, allowAnyServer, wsState, destroyed, messageCount,
                   messageWindowStart, irc, socket, ircEncoding, ircCreated, pending,
                   window>>
    /\ lastStep' = Step("upstream", NoMessage, send(<<"irc:socket_close", "irc:close">>), FALSE, FALSE)
    /\ UNCHANGED notSession

\* the clock advances
Tick ==
    /\ now < MaxTime
    /\ now' = now + 1
    /\ UNCHANGED <<encryptionEnabled, allowAnyServer, wsState, destroyed, messageCount,
                   messageWindowStart, irc, socket, ircEncoding, ircCreated, orphans,
                   pending, window, lastStep>>
    /\ UNCHANGED notSession

GatewayIdle ==
    /\ allowedOrigins = <<>>
    /\ trustProxy = FALSE
    /\ connectedClients = EmptyMap
    /\ connectionsPerIp = EmptyMap
    /\ clientIdCounter = 0
    /\ openSockets = {}
    /\ stopped = FALSE
    /\ lastReq = NoRequest
    /\ lastResp = NoResponse

\* a session just constructed: part_002 lines 24-27
SessionInit ==
    /\ TeardownIdle
    /\ HostnameIdle
    /\ TimersIdle
    /\ variant = "S"
    /\ GatewayIdle
    /\ QueryIdle
    /\ FramingIdle
    /\ now = 0
    /\ encryptionEnabled \in BOOLEAN
    /\ allowAnyServer \in BOOLEAN
    /\ wsState = "OPEN"
    /\ destroyed = FALSE
    /\ messageCount = 0
    /\ messageWindowStart = now
    /\ irc = 0
    /\ socket = "none"
    /\ ircEncoding = "utf8"
    /\ ircCreated = 0
    /\ orphans = 0
    /\ pending = <<>>
    /\ window = NoWindow
    /\ lastStep = NoStep

SessionNext ==
    \/ \E msg \in ClientMessages : OnMessage(msg)
    \/ \E i \in 1..MaxPending : DecryptDone(i)
    \/ OnClose
    \/ StopDestroy
    \/ OnSocketConnect
    \/ OnSocketClose
    \/ OnOrphanClose
    \/ Tick

SpecSession == SessionInit /\ [][SessionNext]_vars

PendingOfWindow == Cardinality({i \in 1..Len(pending) : pending[i].cur})

\* C8: between two consecutive window resets of a session at most messageRateLimit
\* inbound messages are dispatched to command handling: of the n messages that have
\* arrived in the window the limiter lets exactly min(n, messageRateLimit) through,
\* and once decryption has resolved for them, that many have been dispatched when
\* all of them were well-formed; a message that arrives when now - windowStart
\* exceeds the window duration is accepted again.
C8_RateLimit ==
    /\ window.accepted = Min(window.arrived, MessageRateLimit)
    /\ window.dispatched <= MessageRateLimit
    /\ (PendingOfWindow = 0 /\ ~window.malformed)
          => window.dispatched = Min(window.arrived, MessageRateLimit)
    /\ lastStep.op = "drop" => ~lastStep.windowExpired
    /\ window.start = messageWindowStart

\* the limit is reached, one more message is refused, and the next window, opened
\* later by an accepted message, is filled and overrun as well
C8_Witness ==
    /\ window.start > 0
    /\ window.arrived > MessageRateLimit
    /\ window.dispatched = MessageRateLimit
    /\ lastStep.op = "drop"

\* C9: a message the rate limiter refuses is dropped silently: nothing is sent to the
\* browser, the WebSocket is not closed, the message is not dispatched and the
\* session's upstream reference stays as it was.
C9_SilentDrop ==
    lastStep.op = "drop" =>
        /\ lastStep.sent = <<>>
        /\ ~lastStep.wsClosed
        /\ ~lastStep.dispatched
        /\ ~lastStep.ircChanged

\* --------------------------------------------- line framing of the upstream socket:
\* IrcClient.handleIncomingData (src/irc-client.ts) and IrcClient.onData (src/webirc.ts)

\* bytes are numbers, text is a sequence of code points
IRC_LINE_ENDING == <<13, 10>>
PingPrefix == <<80, 73, 78, 71, 32>>
PongPrefix == <<80, 79, 78, 71, 32>>
Numeric001 == <<32, 48, 48, 49, 32>>

\* CR, LF and 0xE9, which is a letter in latin1 and no character in UTF-8
StreamBytes == {13, 10, 233}
\* "PING x\r\n" and ":s 001 n\r\n"
PingStream == <<80, 73, 78, 71, 32, 120, 13, 10>>
WelcomeStream == <<58, 115, 32, 48, 48, 49, 32, 110, 13, 10>>
Streams == UNION {[1..n -> StreamBytes] : n \in 0..MaxStream} \cup {PingStream, WelcomeStream}

\* what \s of a JavaScript regular expression matches
WhiteSpace == {9, 10, 11, 12, 13, 32, 160, 5760, 8232, 8233, 8239, 8287, 12288, 65279}
                  \cup 8192..8202

RECURSIVE Flatten(_)
Flatten(seqs) == IF seqs = <<>> THEN <<>> ELSE Head(seqs) \o Flatten(Tail(seqs))

\* Buffer.toString('utf8') and iconv.decode for a single-byte charset, on streams in
\* which no byte above 0x7F is followed by a continuation byte: such a byte is no
\* character in UTF-8 and decodes to U+FFFD
DecodeByte(b, encoding) == IF encoding = "utf8" /\ b >= 128 THEN 65533 ELSE b

decodeBuffer(buffer, encoding) == [i \in 1..Len(buffer) |-> DecodeByte(buffer[i], encoding)]

EncodeChar(c, encoding) ==
    IF encoding = "utf8"
    THEN IF c < 128 THEN <<c>>
         ELSE IF c < 2048 THEN <<192 + (c \div 64), 128 + (c % 64)>>
         ELSE <<224 + (c \div 4096), 128 + ((c \div 64) % 64), 128 + (c % 64)>>
    ELSE IF c < 256 THEN <<c>> ELSE <<63>>

encodeString(text, encoding) == Flatten([i \in 1..Len(text) |-> EncodeChar(text[i], encoding)])

\* iconv.encodingExists: the character sets iconv-lite has a codec for; iconv.decode
\* and iconv.encode throw for any other name
encodingExists(encoding) == encoding \in {"utf8", "latin1"}

\* toUtf8 of src/encoding.ts
toUtf8(buffer, sourceEncoding) ==
    IF sourceEncoding = "utf8"
    THEN decodeBuffer(buffer, "utf8")
    ELSE IF encodingExists(sourceEncoding)
    THEN decodeBuffer(buffer, sourceEncoding)
    ELSE decodeBuffer(buffer, "utf8")

\* fromUtf8 of src/encoding.ts
fromUtf8(text, targetEncoding) ==
    IF targetEncoding = "utf8"
    THEN encodeString(text, "utf8")
    ELSE IF encodingExists(targetEncoding)
    THEN encodeString(text, targetEncoding)
    ELSE encodeString(text, "utf8")

\* pat occurs in buf at position i
MatchesAt(buf, pat, i) ==
    /\ i >= 1
    /\ i + Len(pat) - 1 <= Len(buf)
    /\ \A j \in 1..Len(pat) : buf[i + j - 1] = pat[j]

\* Buffer.indexOf / String.indexOf, counting from 1; 0 when pat does not occur
IndexOf(buf, pat) ==
    IF \E i \in 1..Len(buf) : MatchesAt(buf, pat, i)
    THEN CHOOSE i \in 1..Len(buf) :
            /\ MatchesAt(buf, pat, i)
            /\ \A k \in 1..(i - 1) : ~MatchesAt(buf, pat, k)
    ELSE 0

\* :[^\s!@]+ 001  at position i of the line
SourceAnd001At(line, i) ==
    /\ i <= Len(line)
    /\ line[i] = 58
    /\ \E k \in 1..Len(line) :
          /\ \A j \in (i + 1)..(i + k) :
                j <= Len(line) /\ line[j] \notin WhiteSpace \cup {33, 64}
          /\ MatchesAt(line, Numeric001, i + k + 1)

\* the welcome test of the first snapshots: line.includes(' 001 ')
RPL_WELCOME_PATTERN_Includes(line) == \E i \in 1..Len(line) : MatchesAt(line, Numeric001, i)

\* RPL_WELCOME_PATTERN.test(line): /^(@\S+ )?:[^\s!@]+ 001 /
RPL_WELCOME_PATTERN(line) ==
    \/ SourceAnd001At(line, 1)
    \/ /\ Len(line) >= 1
       /\ line[1] = 64
       /\ \E m \in 1..Len(line) :
             /\ \A j \in 2..(m + 1) : j <= Len(line) /\ line[j] \notin WhiteSpace
             /\ m + 2 <= Len(line)
             /\ line[m + 2] = 32
             /\ SourceAnd001At(line, m + 3)

Raw(line, fromServer) == [type |-> "raw", line |-> line, fromServer |-> fromServer]
Connected == [type |-> "connected", line |-> <<>>, fromServer |-> TRUE]

\* an exception leaves the handler: the rest of the handler does not run
Exception == [type |-> "exception", line |-> <<>>, fromServer |-> FALSE]

Throw(st) == [st EXCEPT !.events = Append(@, Exception)]

Thrown(st) == st.events # <<>> /\ st.events[Len(st.events)] = Exception

\* IrcClient.send of src/irc-client.ts; encodeString hands every character set but
\* utf8 to iconv.encode, which throws for a name it does not know
IrcClientSend(st, line) ==
    IF Thrown(st)
    THEN st
    ELSE IF writable
    THEN IF encodingExists(characterEncoding)
         THEN [st EXCEPT !.written = Append(@, encodeString(line \o IRC_LINE_ENDING,
                                                            characterEncoding)),
                         !.events = Append(@, Raw(line, FALSE))]
         ELSE Throw(st)
    ELSE st

\* handleIrcLine answering with a bare PONG
handleIrcLineNoPayload(st, line) ==
    LET st1 == [st EXCEPT !.timeoutArmed = FALSE, !.events = Append(@, Raw(line, TRUE))]
    IN IF MatchesAt(line, PingPrefix, 1)
       THEN IrcClientSend(st1, PongPrefix)
       ELSE IF RPL_WELCOME_PATTERN(line)
       THEN [st1 EXCEPT !.events = Append(@, Connected)]
       ELSE st1

\* IrcClient.handleIrcLine of src/irc-client.ts
handleIrcLine(st, line) ==
    LET st1 == [st EXCEPT !.timeoutArmed = FALSE, !.events = Append(@, Raw(line, TRUE))]
    IN IF MatchesAt(line, PingPrefix, 1)
       THEN IrcClientSend(st1, PongPrefix \o SubSeq(line, 6, Len(line)))
       ELSE IF RPL_WELCOME_PATTERN(line)
       THEN [st1 EXCEPT !.events = Append(@, Connected)]
       ELSE st1

\* the loop of handleIncomingData: complete lines are cut off the buffer one by one
RECURSIVE ProcessCompleteLines(_)
ProcessCompleteLines(st) ==
    LET lineEndIndex == IndexOf(st.receiveBuffer, IRC_LINE_ENDING)
        lineBuffer == SubSeq(st.receiveBuffer, 1, lineEndIndex - 1)
        line == decodeBuffer(lineBuffer, characterEncoding)
        st1 == [st EXCEPT !.receiveBuffer = SubSeq(@, lineEndIndex + 2, Len(@))]
    IN IF lineEndIndex = 0 \/ Thrown(st) THEN st
       ELSE IF ~encodingExists(characterEncoding) THEN Throw(st)
       ELSE ProcessCompleteLines(IF line # <<>> THEN handleIrcLine(st1, line) ELSE st1)

\* handleIncomingData that looks for lines in the new data only and keeps the rest
handleIncomingDataNoCarry(st, data) ==
    ProcessCompleteLines([st EXCEPT !.receiveBuffer = data])

\* IrcClient.handleIncomingData of src/irc-client.ts
handleIncomingData(st, data) ==
    ProcessCompleteLines([st EXCEPT !.receiveBuffer = @ \o data])

\* IrcClient.sendRaw of src/webirc.ts: nothing without a socket or on a destroyed one;
\* on a socket that was ended the write is refused, the line is echoed all the same
sendRaw(st, line) ==
    IF ircSocket \in {"none", "destroyed", "closed"}
    THEN st
    ELSE [st EXCEPT !.written = IF writable
                                THEN Append(@, fromUtf8(line \o IRC_LINE_ENDING,
                                                        characterEncoding))
                                ELSE @,
                    !.events = Append(@, Raw(line, FALSE))]

\* IrcClient.processLine of src/webirc.ts
processLine(st, line) ==
    LET st1 == [st EXCEPT !.events = Append(@, Raw(line, TRUE))]
    IN IF MatchesAt(line, PingPrefix, 1)
       THEN sendRaw(st1, PongPrefix \o SubSeq(line, 6, Len(line)))
       ELSE IF ~st1.registered /\ IndexOf(line, Numeric001) # 0
       THEN [st1 EXCEPT !.registered = TRUE, !.events = Append(@, Connected)]
       ELSE st1

\* the loop of onData
RECURSIVE ProcessLines(_)
ProcessLines(st) ==
    LET lineEnd == IndexOf(st.receiveBuffer, IRC_LINE_ENDING)
        lineBuffer == SubSeq(st.receiveBuffer, 1, lineEnd - 1)
        st1 == [st EXCEPT !.receiveBuffer = SubSeq(@, lineEnd + 2, Len(@))]
        line == toUtf8(lineBuffer, characterEncoding)
    IN IF lineEnd = 0 THEN st
       ELSE ProcessLines(IF Len(line) > 0 THEN processLine(st1, line) ELSE st1)

\* IrcClient.onData of src/webirc.ts
onData(st, data) ==
    ProcessLines([st EXCEPT !.timeoutArmed = TRUE, !.receiveBuffer = @ \o data])

\* the socket's 'data' event with the next n bytes of the stream, src/irc-client.ts
OnSocketData(n) ==
    /\ variant = "irc-client.ts"
    /\ n \in 1..(Len(stream) - consumed)
    /\ ircClient' = handleIncomingData(ircClient, SubSeq(stream, consumed + 1, consumed + n))
    /\ consumed' = consumed + n
    /\ chunkStart' = consumed
    /\ UNCHANGED <<stream, characterEncoding, writable, ircSocket, lifecycleVars>>
    /\ UNCHANGED notFraming

\* the socket's 'data' event with the next n bytes of the stream, src/webirc.ts
OnSocketDataWebirc(n) ==
    /\ variant = "webirc.ts"
    /\ n \in 1..(Len(stream) - consumed)
    /\ ircClient' = onData(ircClient, SubSeq(stream, consumed + 1, consumed + n))
    /\ consumed' = consumed + n
    /\ chunkStart' = consumed
    /\ UNCHANGED <<stream, characterEncoding, writable, ircSocket, lifecycleVars>>
    /\ UNCHANGED notFraming

\* a connected IrcClient before the first byte arrives
FramingInit ==
    /\ TeardownIdle
    /\ HostnameIdle
    /\ TimersIdle
    /\ variant \in {"irc-client.ts", "webirc.ts"}
    /\ GatewayIdle
    /\ QueryIdle
    /\ SessionIdle
    /\ LifecycleIdle
    /\ stream \in Streams
    /\ consumed = 0
    /\ chunkStart = 0
    /\ characterEncoding \in {"utf8", "latin1"}
    /\ writable = TRUE
    /\ ircSocket = "open"
    /\ ircClient = [NoClient EXCEPT !.timeoutArmed = (variant = "irc-client.ts")]

FramingNext ==
    \/ \E n \in 1..Len(stream) : OnSocketData(n)
    \/ \E n \in 1..Len(stream) : OnSocketDataWebirc(n)

SpecFraming == FramingInit /\ [][FramingNext]_vars

\* the starts of the CRLF pairs of a byte sequence
Terminators(bytes) ==
    {i \in 1..(Len(bytes) - 1) : bytes[i] = 13 /\ bytes[i + 1] = 10}

\* the start of the k-th CRLF pair
Terminator(bytes, k) ==
    CHOOSE t \in Terminators(bytes) : Cardinality({u \in Terminators(bytes) : u < t}) = k - 1

\* the CRLF-terminated lines of a byte sequence, in order, without their terminators
TerminatedLines(bytes) ==
    [k \in 1..Cardinality(Terminators(bytes)) |->
        SubSeq(bytes, IF k = 1 THEN 1 ELSE Terminator(bytes, k - 1) + 2,
               Terminator(bytes, k) - 1)]

\* what follows the last CRLF pair
UnterminatedTail(bytes) ==
    LET n == Cardinality(Terminators(bytes))
    IN SubSeq(bytes, IF n = 0 THEN 1 ELSE Terminator(bytes, n) + 2, Len(bytes))

Decoded(lines) == [k \in 1..Len(lines) |-> decodeBuffer(lines[k], characterEncoding)]

NotEmpty(line) == line # <<>>

IsRawFromServer(e) == e.type = "raw" /\ e.fromServer

\* the lines of the raw(line, fromServer = true) events emitted so far
RawLines ==
    LET raws == SelectSeq(ircClient.events, IsRawFromServer)
    IN [k \in 1..Len(raws) |-> raws[k].line]

Delivered == SubSeq(stream, 1, consumed)

Framing == variant \in {"irc-client.ts", "webirc.ts"}

\* C10, as amended: however the stream is split into data events, after every data
\* event the raw(line, fromServer = true) events are the decoded CRLF-terminated
\* lines of the bytes delivered so far, except the lines whose text is empty, which
\* emit nothing; the receive buffer holds the unterminated tail, which emits nothing.
C10_FramingNonEmptyLines ==
    Framing =>
        /\ RawLines = SelectSeq(Decoded(TerminatedLines(Delivered)), NotEmpty)
        /\ ircClient.receiveBuffer = UnterminatedTail(Delivered)

\* a data event ends between the CR and the LF of a line that is not empty, and the
\* next one completes it and emits it
C10_Witness ==
    /\ Framing
    /\ chunkStart >= 2
    /\ consumed > chunkStart
    /\ stream[chunkStart] = 13
    /\ stream[chunkStart + 1] = 10
    /\ stream[chunkStart - 1] = 233
    /\ Len(RawLines) > Len(SelectSeq(TerminatedLines(SubSeq(stream, 1, chunkStart)), NotEmpty))

\* C10: line framing is independent of chunking: the raw(line, fromServer = true)
\* events are the CRLF-terminated lines of the bytes delivered so far, each emitted
\* once the chunk that completes its terminator has arrived, and the unterminated
\* tail emits nothing.
C10_FramingAllLines ==
    Framing =>
        /\ RawLines = Decoded(TerminatedLines(Delivered))
        /\ ircClient.receiveBuffer = UnterminatedTail(Delivered)

\* C11: after a data event has been handled the receive buffer of an IrcClient never
\* exceeds the hard cap: data without CRLF that grows beyond the cap destroys the
\* connection instead of being kept.
C11_BufferCap ==
    Framing => Len(ircClient.receiveBuffer) <= BufferCap

\* --------------------------------------------- whole lines from the server

\* "PING :abc"
LinePing == <<80, 73, 78, 71, 32, 58, 97, 98, 99>>
\* "PING "
LinePingEmpty == <<80, 73, 78, 71, 32>>
\* "PING"
LinePingBare == <<80, 73, 78, 71>>
\* "PINGx"
LinePingGlued == <<80, 73, 78, 71, 120>>
\* "ping :abc"
LinePingLower == <<112, 105, 110, 103, 32, 58, 97, 98, 99>>
\* ":s PING :abc"
LinePingInside == <<58, 115, 32, 80, 73, 78, 71, 32, 58, 97, 98, 99>>
\* ":s 001 n :W"
LineWelcome == <<58, 115, 32, 48, 48, 49, 32, 110, 32, 58, 87>>
\* "@t=1 :s 001 n :W"
LineWelcomeTagged == <<64, 116, 61, 49, 32, 58, 115, 32, 48, 48, 49, 32, 110, 32, 58, 87>>
\* ":n!u@h PRIVMSG #c :has 001 in it"
LineUserOrigin == <<58, 110, 33, 117, 64, 104, 32, 80, 82, 73, 86, 77, 83, 71, 32, 35, 99, 32, 58, 104, 97, 115, 32, 48, 48, 49, 32, 105, 110, 32, 105, 116>>
\* ":n!u@h 001 n :W"
LineUser001 == <<58, 110, 33, 117, 64, 104, 32, 48, 48, 49, 32, 110, 32, 58, 87>>
\* ":n@h 001 n"
LineAtSource == <<58, 110, 64, 104, 32, 48, 48, 49, 32, 110>>
\* "s 001 n"
LineNoColon == <<115, 32, 48, 48, 49, 32, 110>>
\* ":s 0011 n"
LineNumeric0011 == <<58, 115, 32, 48, 48, 49, 49, 32, 110>>
\* ":s 001"
LineNoTrailing == <<58, 115, 32, 48, 48, 49>>
\* ":s  001 n"
LineDoubleSpace == <<58, 115, 32, 32, 48, 48, 49, 32, 110>>
\* "@ :s 001 n"
LineEmptyTag == <<64, 32, 58, 115, 32, 48, 48, 49, 32, 110>>
\* "@a\tb :s 001 n"
LineTabTag == <<64, 97, 9, 98, 32, 58, 115, 32, 48, 48, 49, 32, 110>>
\* ":s NOTICE * :hi"
LineNotice == <<58, 115, 32, 78, 79, 84, 73, 67, 69, 32, 42, 32, 58, 104, 105>>

ServerLines ==
    {LinePing, LinePingEmpty, LinePingBare, LinePingGlued, LinePingLower,
     LinePingInside, LineWelcome, LineWelcomeTagged, LineUserOrigin, LineUser001,
     LineAtSource, LineNoColon, LineNumeric0011, LineNoTrailing, LineDoubleSpace,
     LineEmptyTag, LineTabTag, LineNotice}

\* the byte streams of up to MaxLines such lines
LineStreams ==
    {Flatten([k \in 1..Len(ls) |-> ls[k] \o IRC_LINE_ENDING]) :
        ls \in UNION {[1..n -> ServerLines] : n \in 1..MaxLines}}

\* a connected IrcClient whose socket is open, or was ended by quit and still
\* receives what the server sends until the server closes
LinesInit ==
    /\ TeardownIdle
    /\ HostnameIdle
    /\ TimersIdle
    /\ variant \in {"irc-client.ts", "webirc.ts"}
    /\ GatewayIdle
    /\ QueryIdle
    /\ SessionIdle
    /\ LifecycleIdle
    /\ stream \in LineStreams
    /\ consumed = 0
    /\ chunkStart = 0
    /\ characterEncoding \in {"utf8", "latin1"}
    /\ ircSocket \in {"open", "ended"}
    /\ writable = (ircSocket = "open")
    /\ ircClient = NoClient

\* the number of bytes up to the end of the next line
NextLineLength == IndexOf(SubSeq(stream, consumed + 1, Len(stream)), IRC_LINE_ENDING) + 1

\* every data event carries one whole line
LinesNext ==
    \/ OnSocketData(NextLineLength)
    \/ OnSocketDataWebirc(NextLineLength)

SpecLines == LinesInit /\ [][LinesNext]_vars

\* the text of the line the step delivers
ReceivedLine == decodeBuffer(SubSeq(stream, consumed + 1, consumed' - 2), characterEncoding)

BeginsWithPing(line) == Len(line) >= 5 /\ SubSeq(line, 1, 5) = PingPrefix

PongFor(line) ==
    encodeString(PongPrefix \o SubSeq(line, 6, Len(line)) \o IRC_LINE_ENDING, characterEncoding)

\* C12, as amended: for every line from the server that begins with 'PING ' the
\* client writes exactly one line 'PONG <same payload>' to the socket in the same
\* step if the socket is writable, and nothing if the socket has been ended; a line
\* that does not begin with 'PING ' writes nothing.
C12_PongWhenWritable ==
    [][consumed' > consumed =>
          ircClient'.written = ircClient.written \o
              (IF BeginsWithPing(ReceivedLine) /\ writable
               THEN <<PongFor(ReceivedLine)>> ELSE <<>>)]_vars

\* two PING lines were received on an open socket and each was answered
C12_Witness ==
    /\ ircSocket = "open"
    /\ stream = LinePing \o IRC_LINE_ENDING \o LinePingEmpty \o IRC_LINE_ENDING
    /\ consumed = Len(stream)
    /\ Len(ircClient.written) = 2

\* C12: for every line received from the server that begins with 'PING ' the client
\* writes exactly one line 'PONG <same payload>' to the upstream socket in the same
\* handling step, and a line that does not begin with 'PING ' produces no PONG.
C12_PongPerPing ==
    [][consumed' > consumed =>
          ircClient'.written = ircClient.written \o
              (IF BeginsWithPing(ReceivedLine)
               THEN <<PongFor(ReceivedLine)>> ELSE <<>>)]_vars

\* the first space of the line at or after position from; 0 when there is none
FirstSpace(line, from) ==
    IF \E i \in from..Len(line) : line[i] = 32
    THEN CHOOSE i \in from..Len(line) :
            line[i] = 32 /\ \A k \in from..(i - 1) : line[k] # 32
    ELSE 0

\* the line read word by word: an optional tag word '@...', then a source word
\* ':...' without '!' and '@', then the word 001, then more
ServerOrigin001(line) ==
    LET tagged == Len(line) >= 1 /\ line[1] = 64
        tagEnd == FirstSpace(line, 1)
        source == IF tagged THEN tagEnd + 1 ELSE 1
        sourceEnd == FirstSpace(line, source)
    IN /\ tagged => /\ tagEnd >= 3
                    /\ \A j \in 2..(tagEnd - 1) : line[j] \notin WhiteSpace
       /\ source <= Len(line)
       /\ line[source] = 58
       /\ sourceEnd >= source + 2
       /\ \A j \in (source + 1)..(sourceEnd - 1) : line[j] \notin WhiteSpace \cup {33, 64}
       /\ sourceEnd + 4 <= Len(line)
       /\ SubSeq(line, sourceEnd + 1, sourceEnd + 4) = <<48, 48, 49, 32>>

IsConnectedEvent(e) == e.type = "connected"

ConnectedEvents(st) == Len(SelectSeq(st.events, IsConnectedEvent))

\* C14: only a server-origin 001 registers the client: a line emits connected if and
\* only if it has an optional tag prefix, then ':' and a source with neither '!' nor
\* '@', then the command 001; a user-origin line that contains 001 never does.
C14_ServerOrigin001 ==
    [][(variant = "irc-client.ts" /\ consumed' > consumed) =>
          ConnectedEvents(ircClient') - ConnectedEvents(ircClient) =
              (IF ServerOrigin001(ReceivedLine) THEN 1 ELSE 0)]_vars

\* a user-origin line that contains 001 was received and emitted nothing, then a
\* tagged welcome line emitted connected
C14_Witness ==
    /\ variant = "irc-client.ts"
    /\ stream = LineUserOrigin \o IRC_LINE_ENDING \o LineWelcomeTagged \o IRC_LINE_ENDING
    /\ consumed = Len(stream)
    /\ ConnectedEvents(ircClient) = 1
    /\ ircClient.events[Len(ircClient.events)] = Connected

DeliveredLines == Decoded(TerminatedLines(Delivered))

\* C13: per upstream connection the connected event is emitted exactly once: the
\* first server line matching the welcome pattern emits it, and any later matching
\* line on the same connection emits no further connected event.
C13_ConnectedOnce ==
    /\ ConnectedEvents(ircClient) <= 1
    /\ (\E k \in 1..Len(DeliveredLines) : ServerOrigin001(DeliveredLines[k]))
          => ConnectedEvents(ircClient) = 1

\* --------------------------------------------- the life of an IrcClient: connect,
\* registration, raw lines of the client, keepalive, quit and destroy
\* (the IrcClient of src/irc-client.ts lines 337-722 and the one of src/webirc.ts)

\* "WEBIRC "
WebircVerb == <<87, 69, 66, 73, 82, 67, 32>>
\* "PASS "
PassVerb == <<80, 65, 83, 83, 32>>
\* "CAP LS 302"
CapLs302 == <<67, 65, 80, 32, 76, 83, 32, 51, 48, 50>>
\* "NICK "
NickVerb == <<78, 73, 67, 75, 32>>
\* "USER "
UserVerb == <<85, 83, 69, 82, 32>>
\* " 0 * :"
UserMode == <<32, 48, 32, 42, 32, 58>>
\* "QUIT :"
QuitVerb == <<81, 85, 73, 84, 32, 58>>
\* " "
Space == <<32>>
\* the keepalive line; the time after the colon is written as 1
PingCommand == <<80, 73, 78, 71, 32, 58, 49>>
\* config.defaults.quitMessage
DefaultQuitMessage == <<98, 121, 101>>
\* a line the client of the gateway sends with a raw command
ClientRawLine == <<74, 79, 73, 78, 32, 35, 99>>

\* fields a caller supplies: as they should be, and with CR or LF inside
\* "n"
CleanNick == <<110>>
\* "n\r\nX"
DirtyNick == <<110, 13, 10, 88>>
\* "r"
RealName == <<114>>
\* "pw"
CleanPassword == <<112, 119>>
\* "p\rw"
DirtyPassword == <<112, 13, 119>>
\* WebircParams as <<password, gateway, hostname, ip>>; <<>> without WEBIRC
\* "wp", "g", "h.web", "::1"
CleanWebirc == <<<<119, 112>>, <<103>>, <<104, 46, 119, 101, 98>>, <<58, 58, 49>>>>
\* the same with the hostname "h\nQ"
DirtyWebirc == <<<<119, 112>>, <<103>>, <<104, 10, 81>>, <<58, 58, 49>>>>

\* how many calls and timer ticks an IrcClient sees
MaxOps == 3
\* how many lines the server sends on one connection
MaxServerLines == 1

MakeOptions(nick, password, webirc, tls, encoding) ==
    [nick |-> nick, username |-> nick, realname |-> RealName, password |-> password,
     webirc |-> webirc, tls |-> tls, encoding |-> encoding]

\* the options of connect calls
ConnectOptions ==
    {MakeOptions(CleanNick, <<>>, <<>>, FALSE, "utf8"),
     MakeOptions(CleanNick, CleanPassword, CleanWebirc, TRUE, "utf8"),
     MakeOptions(CleanNick, <<>>, CleanWebirc, FALSE, "utf8"),
     MakeOptions(DirtyNick, <<>>, <<>>, FALSE, "utf8"),
     MakeOptions(CleanNick, DirtyPassword, <<>>, FALSE, "utf8"),
     MakeOptions(CleanNick, <<>>, DirtyWebirc, FALSE, "utf8")}

\* the server sends whole lines
LifecycleLines == {LinePing, LineWelcome, LineNotice}

Event(type) == [type |-> type, line |-> <<>>, fromServer |-> TRUE]

Emit(st, type) == [st EXCEPT !.events = Append(@, Event(type))]

\* the IrcClient at the start of a handler: events are those of the handler alone
Fresh == [ircClient EXCEPT !.events = <<>>]

\* stripCRLF of src/irc-client.ts
stripCRLF(input) == SelectSeq(input, LAMBDA c : c \notin {13, 10})

\* buildWebircCommand of src/webirc.ts
buildWebircCommand(params) ==
    WebircVerb \o params[1] \o Space \o params[2] \o Space \o params[3] \o Space \o params[4]

\* handleSocketConnected sending NICK before CAP LS 302
handleSocketConnectedNickFirst(st, opts) ==
    LET st0 == Emit(st, "socket_connected")
        st1 == IF opts.webirc # <<>>
               THEN IrcClientSend(st0, WebircVerb \o stripCRLF(opts.webirc[1]) \o Space
                                       \o stripCRLF(opts.webirc[2]) \o Space
                                       \o stripCRLF(opts.webirc[3]) \o Space
                                       \o stripCRLF(opts.webirc[4]))
               ELSE st0
        st2 == IF opts.password # <<>>
               THEN IrcClientSend(st1, PassVerb \o stripCRLF(opts.password))
               ELSE st1
        st3 == IrcClientSend(st2, NickVerb \o stripCRLF(opts.nick))
        st4 == IrcClientSend(st3, CapLs302)
    IN IrcClientSend(st4, UserVerb \o stripCRLF(opts.username) \o UserMode
                          \o stripCRLF(opts.realname))

\* IrcClient.handleSocketConnected of src/irc-client.ts, without its timers
handleSocketConnected(st, opts) ==
    LET st0 == Emit(st, "socket_connected")
        st1 == IF opts.webirc # <<>>
               THEN IrcClientSend(st0, WebircVerb \o stripCRLF(opts.webirc[1]) \o Space
                                       \o stripCRLF(opts.webirc[2]) \o Space
                                       \o stripCRLF(opts.webirc[3]) \o Space
                                       \o stripCRLF(opts.webirc[4]))
               ELSE st0
        st2 == IF opts.password # <<>>
               THEN IrcClientSend(st1, PassVerb \o stripCRLF(opts.password))
               ELSE st1
        st3 == IrcClientSend(st2, CapLs302)
        st4 == IrcClientSend(st3, NickVerb \o stripCRLF(opts.nick))
    IN IrcClientSend(st4, UserVerb \o stripCRLF(opts.username) \o UserMode
                          \o stripCRLF(opts.realname))

\* IrcClient.onSocketConnect of src/webirc.ts, without its timer
onSocketConnect(st, opts) ==
    LET st0 == Emit(st, "socket_connected")
        st1 == IF opts.webirc # <<>> THEN sendRaw(st0, buildWebircCommand(opts.webirc)) ELSE st0
        st2 == IF opts.password # <<>> THEN sendRaw(st1, PassVerb \o opts.password) ELSE st1
        st3 == sendRaw(st2, CapLs302)
        st4 == sendRaw(st3, NickVerb \o opts.nick)
    IN sendRaw(st4, UserVerb \o opts.username \o UserMode \o opts.realname)

\* stopPingTimer of src/irc-client.ts: the part kept in the record
stopPingTimer(st) == [st EXCEPT !.timeoutArmed = FALSE]

\* cleanup of src/webirc.ts: the part kept in the record
cleanup(st) == [st EXCEPT !.timeoutArmed = FALSE]

\* a socket that is connecting or connected, end() called on it ("ending", "ended") or not
Live(s) == s \in {"connecting", "open", "ending", "ended"}

\* a socket whose 'close' event is still to come
ClosePending(s) == Live(s) \/ s = "destroyed"

\* socket.end()
SocketEnd(s) ==
    CASE s = "connecting" -> "ending"
      [] s = "open" -> "ended"
      [] OTHER -> s

\* the call is recorded and counted
Called(op) ==
    /\ calls' = IF Len(calls) < 2 THEN Append(calls, op) ELSE <<calls[2], op>>
    /\ opCount' = opCount + 1

\* IrcClient.connect(options)
IrcClientConnect(opts) ==
    /\ opCount < MaxOps
    /\ LET keep == variant = "webirc.ts" /\ ircSocket = "none"
       IN /\ ircClient' = [Fresh EXCEPT !.timeoutArmed = IF keep THEN @ ELSE FALSE,
                                        !.receiveBuffer = <<>>,
                                        !.registered = FALSE,
                                        !.written = <<>>]
          /\ pingIntervalTimer' = IF keep THEN pingIntervalTimer ELSE FALSE
    /\ staleSockets' = IF ClosePending(ircSocket) THEN staleSockets + 1 ELSE staleSockets
    /\ ircSocket' = "connecting"
    /\ writable' = TRUE
    /\ options' = opts
    /\ characterEncoding' = opts.encoding
    /\ stream' = <<>>
    /\ consumed' = 0
    /\ chunkStart' = 0
    /\ Called("connect")
    /\ UNCHANGED notFraming

\* the 'connect' event of the socket: TCP or TLS is established
SocketConnectEvent ==
    /\ ircSocket \in {"connecting", "ending"}
    /\ ircClient' = IF variant = "irc-client.ts"
                    THEN handleSocketConnected(Fresh, options)
                    ELSE onSocketConnect(Fresh, options)
    /\ pingIntervalTimer' = IF Thrown(ircClient') THEN pingIntervalTimer ELSE TRUE
    /\ ircSocket' = IF ircSocket = "connecting" THEN "open" ELSE "ended"
    /\ UNCHANGED <<stream, consumed, chunkStart, characterEncoding, writable, options,
                   staleSockets, calls, opCount>>
    /\ UNCHANGED notFraming

\* the 'timeout' event of a socket that has not connected in time (createSocket)
SocketTimeoutEvent ==
    /\ variant = "irc-client.ts"
    /\ ircSocket \in {"connecting", "ending"}
    /\ ircSocket' = "destroyed"
    /\ writable' = FALSE
    /\ ircClient' = Fresh
    /\ UNCHANGED <<stream, consumed, chunkStart, characterEncoding, lifecycleVars>>
    /\ UNCHANGED notFraming

\* a 'data' event with one whole line
SocketDataEvent(line) ==
    /\ ircSocket \in {"open", "ended"}
    /\ Cardinality(Terminators(stream)) < MaxServerLines
    /\ LET data == encodeString(line \o IRC_LINE_ENDING, characterEncoding)
       IN /\ ircClient' = IF variant = "irc-client.ts"
                          THEN handleIncomingData(Fresh, data)
                          ELSE onData(Fresh, data)
          /\ stream' = stream \o data
          /\ consumed' = Len(stream) + Len(data)
    /\ chunkStart' = consumed
    /\ UNCHANGED <<characterEncoding, writable, ircSocket, lifecycleVars>>
    /\ UNCHANGED notFraming

\* handleSocketClosed / onSocketClose
Closed(st) ==
    IF variant = "irc-client.ts"
    THEN Emit(stopPingTimer(st), "close")
    ELSE Emit(Emit(cleanup(st), "socket_close"), "close")

\* the 'close' event of the socket the IrcClient holds; a socket destroyed by a
\* timeout reports its error first
SocketCloseEvent ==
    /\ ClosePending(ircSocket)
    /\ ircClient' = Closed(IF ircSocket = "destroyed" THEN Emit(Fresh, "error") ELSE Fresh)
    /\ pingIntervalTimer' = FALSE
    /\ ircSocket' = "closed"
    /\ writable' = FALSE
    /\ UNCHANGED <<stream, consumed, chunkStart, characterEncoding, options, staleSockets,
                   calls, opCount>>
    /\ UNCHANGED notFraming

\* a failing socket whose keepalive interval is left running
SocketErrorEventKeepsTimers ==
    /\ Live(ircSocket)
    /\ ircClient' = Closed(Emit(Fresh, "error"))
    /\ ircSocket' = "closed"
    /\ writable' = FALSE
    /\ UNCHANGED <<stream, consumed, chunkStart, characterEncoding, options, staleSockets,
                   calls, opCount, pingIntervalTimer>>
    /\ UNCHANGED notFraming

\* the socket fails: the connection is refused, the name does not resolve, the TLS
\* handshake fails or the peer resets. Node destroys the socket with the error, so
\* its 'error' event is followed by its 'close' event
SocketErrorEvent ==
    /\ Live(ircSocket)
    /\ ircClient' = Closed(Emit(Fresh, "error"))
    /\ pingIntervalTimer' = FALSE
    /\ ircSocket' = "closed"
    /\ writable' = FALSE
    /\ UNCHANGED <<stream, consumed, chunkStart, characterEncoding, options, staleSockets,
                   calls, opCount>>
    /\ UNCHANGED notFraming

\* the 'close' event of a socket destroy() let go: its listeners are still attached
StaleSocketCloseEvent ==
    /\ staleSockets > 0
    /\ staleSockets' = staleSockets - 1
    /\ ircClient' = Closed(Fresh)
    /\ pingIntervalTimer' = FALSE
    /\ UNCHANGED <<stream, consumed, chunkStart, characterEncoding, writable, ircSocket,
                   options, calls, opCount>>
    /\ UNCHANGED notFraming

\* a raw command of the client: handleRawCommand of src/gateway.ts calls send,
\* handleRaw of ClientConnection calls sendRaw if isConnected()
SendRawLine ==
    /\ opCount < MaxOps
    /\ ircClient' = IF variant = "irc-client.ts"
                    THEN IrcClientSend(Fresh, ClientRawLine)
                    ELSE IF ircSocket \notin {"none", "destroyed", "closed"}
                    THEN sendRaw(Fresh, ClientRawLine)
                    ELSE Fresh
    /\ Called("send")
    /\ UNCHANGED <<stream, consumed, chunkStart, characterEncoding, writable, ircSocket,
                   options, pingIntervalTimer, staleSockets>>
    /\ UNCHANGED notFraming

\* IrcClient.quit(message) with the default quit message
IrcClientQuit ==
    /\ opCount < MaxOps
    /\ IF variant = "irc-client.ts"
       THEN LET st == IF writable THEN IrcClientSend(Fresh, QuitVerb \o DefaultQuitMessage)
                      ELSE Fresh
            IN /\ ircClient' = IF Thrown(st) THEN st ELSE stopPingTimer(st)
               /\ ircSocket' = IF writable /\ ~Thrown(st) THEN SocketEnd(ircSocket)
                                ELSE ircSocket
               /\ writable' = (writable /\ Thrown(st))
               /\ pingIntervalTimer' = (pingIntervalTimer /\ Thrown(st))
       ELSE /\ ircClient' = cleanup(IF ircSocket \notin {"none", "destroyed", "closed"}
                                    THEN sendRaw(Fresh, QuitVerb \o DefaultQuitMessage)
                                    ELSE Fresh)
            /\ ircSocket' = SocketEnd(ircSocket)
            /\ writable' = FALSE
            /\ pingIntervalTimer' = FALSE
    /\ Called("quit")
    /\ UNCHANGED <<stream, consumed, chunkStart, characterEncoding, options, staleSockets>>
    /\ UNCHANGED notFraming

\* destroy() that stops the timers and keeps the socket
IrcClientDestroyKeepsSocket ==
    /\ opCount < MaxOps
    /\ ircClient' = stopPingTimer(Fresh)
    /\ pingIntervalTimer' = FALSE
    /\ Called("destroy")
    /\ UNCHANGED <<stream, consumed, chunkStart, characterEncoding, writable, ircSocket,
                   options, staleSockets>>
    /\ UNCHANGED notFraming

\* IrcClient.destroy()
IrcClientDestroy ==
    /\ opCount < MaxOps
    /\ ircClient' = stopPingTimer(Fresh)
    /\ pingIntervalTimer' = FALSE
    /\ staleSockets' = IF ClosePending(ircSocket) THEN staleSockets + 1 ELSE staleSockets
    /\ ircSocket' = "none"
    /\ writable' = FALSE
    /\ Called("destroy")
    /\ UNCHANGED <<stream, consumed, chunkStart, characterEncoding, options>>
    /\ UNCHANGED notFraming

\* a tick of the keepalive interval
PingIntervalTick ==
    /\ pingIntervalTimer
    /\ opCount < MaxOps
    /\ ircClient' = IF variant = "irc-client.ts"
                    THEN LET st == IrcClientSend(Fresh, PingCommand)
                         IN IF Thrown(st) THEN st ELSE [st EXCEPT !.timeoutArmed = TRUE]
                    ELSE sendRaw(Fresh, PingCommand)
    /\ Called("ping")
    /\ UNCHANGED <<stream, consumed, chunkStart, characterEncoding, writable, ircSocket,
                   options, pingIntervalTimer, staleSockets>>
    /\ UNCHANGED notFraming

\* the dead-peer timer fires: pongTimeoutTimer destroys the socket and keeps it,
\* pingTimeout reports an error and calls destroy()
PongTimeoutFires ==
    /\ ircClient.timeoutArmed
    /\ IF variant = "irc-client.ts"
       THEN /\ ircClient' = [Fresh EXCEPT !.timeoutArmed = FALSE]
            /\ ircSocket' = IF Live(ircSocket) THEN "destroyed" ELSE ircSocket
            /\ UNCHANGED <<pingIntervalTimer, staleSockets>>
       ELSE /\ ircClient' = cleanup(Emit(Fresh, "error"))
            /\ ircSocket' = "none"
            /\ pingIntervalTimer' = FALSE
            /\ staleSockets' = IF ClosePending(ircSocket) THEN staleSockets + 1
                               ELSE staleSockets
    /\ writable' = FALSE
    /\ UNCHANGED <<stream, consumed, chunkStart, characterEncoding, options, calls, opCount>>
    /\ UNCHANGED notFraming

\* an IrcClient as constructed
IrcInit ==
    /\ TeardownIdle
    /\ HostnameIdle
    /\ TimersIdle
    /\ variant \in {"irc-client.ts", "webirc.ts"}
    /\ GatewayIdle
    /\ QueryIdle
    /\ SessionIdle
    /\ FramingIdle

IrcNext ==
    \/ \E opts \in ConnectOptions : IrcClientConnect(opts)
    \/ SocketConnectEvent
    \/ SocketTimeoutEvent
    \/ \E line \in LifecycleLines : SocketDataEvent(line)
    \/ SocketCloseEvent
    \/ SocketErrorEvent
    \/ StaleSocketCloseEvent
    \/ SendRawLine
    \/ IrcClientQuit
    \/ IrcClientDestroy
    \/ PingIntervalTick
    \/ PongTimeoutFires

SpecIrc == IrcInit /\ [][IrcNext]_vars

\* which registration line a write carries, by its first word
RegistrationKind(w) ==
    CASE MatchesAt(w, WebircVerb, 1) -> "WEBIRC"
      [] MatchesAt(w, PassVerb, 1) -> "PASS"
      [] MatchesAt(w, CapLs302, 1) -> "CAP"
      [] MatchesAt(w, NickVerb, 1) -> "NICK"
      [] MatchesAt(w, UserVerb, 1) -> "USER"
      [] OTHER -> "other"

IsRegistration(kind) == kind # "other"

\* the registration lines written to the socket so far, in order
RegistrationWritten ==
    SelectSeq([k \in 1..Len(ircClient.written) |-> RegistrationKind(ircClient.written[k])],
              IsRegistration)

ExpectedRegistration(opts) ==
    (IF opts.webirc # <<>> THEN <<"WEBIRC">> ELSE <<>>)
        \o (IF opts.password # <<>> THEN <<"PASS">> ELSE <<>>)
        \o <<"CAP", "NICK", "USER">>

\* C15: on socket connect the registration lines are written in the fixed order
\* WEBIRC (if configured), PASS (if a password was supplied), CAP LS 302, NICK,
\* USER, each at most once per connection, and socket_connected is emitted before
\* the first of them.
C15_RegistrationOrder ==
    /\ RegistrationWritten \in {<<>>, ExpectedRegistration(options)}
    /\ ircSocket = "open" => RegistrationWritten = ExpectedRegistration(options)
    /\ \A k \in 1..Len(ircClient.events) :
          ircClient.events[k].type = "socket_connected"
             => /\ k = 1
                /\ ircSocket = "open"
                      => /\ Len(ircClient.events) = 1 + Len(ExpectedRegistration(options))
                         /\ Len(ircClient.written) >= Len(ExpectedRegistration(options))
                         /\ \A j \in 2..Len(ircClient.events) :
                               /\ ircClient.events[j].type = "raw"
                               /\ ~ircClient.events[j].fromServer
                               /\ ircClient.written[Len(ircClient.written)
                                                      - Len(ircClient.events) + j]
                                     = encodeString(ircClient.events[j].line
                                                        \o IRC_LINE_ENDING,
                                                    characterEncoding)

\* the socket has connected with WEBIRC and a password configured, after a raw line
C15_Witness ==
    /\ ircSocket = "open"
    /\ Len(ircClient.events) = 6
    /\ ircClient.events[1].type = "socket_connected"
    /\ RegistrationWritten = <<"WEBIRC", "PASS", "CAP", "NICK", "USER">>
    /\ Len(ircClient.written) = 6

\* C16: when WEBIRC is configured the WEBIRC line is the first line written to the
\* upstream socket, also when a raw line of the client arrives after the connect
\* command and before TCP/TLS is established.
C16_WebircFirst ==
    (options.webirc # <<>> /\ ircClient.written # <<>>)
        => RegistrationKind(ircClient.written[1]) = "WEBIRC"

HasCRLF(text) == \E i \in 1..Len(text) : text[i] \in {13, 10}

\* C17: no registration line contains CR or LF before its terminator.
C17_NoCRLF ==
    \A k \in 1..Len(ircClient.written) :
        LET w == ircClient.written[k]
        IN IsRegistration(RegistrationKind(w)) => ~HasCRLF(SubSeq(w, 1, Len(w) - 2))

\* the step is a call of destroy()
DestroyCalled == opCount' = opCount + 1 /\ calls'[Len(calls')] = "destroy"

\* C18: destroy() on an IrcClient without a socket (destroyed before, or never
\* connected) changes no state and emits no event; after destroy() the socket
\* reference is cleared and no timer is armed.
C18_DestroyIdempotent ==
    /\ []((calls # <<>> /\ calls[Len(calls)] = "destroy")
             => /\ ircSocket = "none"
                /\ ~pingIntervalTimer
                /\ ~ircClient.timeoutArmed)
    /\ [][(DestroyCalled /\ ircSocket = "none")
             => /\ ircClient' = Fresh
                /\ UNCHANGED <<stream, consumed, chunkStart, characterEncoding, writable,
                               ircSocket, options, pingIntervalTimer, staleSockets>>]_vars

\* destroy() was called twice in a row on an IrcClient that held a socket
C18_Witness ==
    /\ calls = <<"destroy", "destroy">>
    /\ opCount >= 3
    /\ ircSocket = "none"
    /\ options # NoOptions

\* --------------------------------------------- teardown of sessions: Gateway A
\* (src/gateway.ts lines 7-166) with the ClientConnection of unnamed/part_002

\* how many WebSockets are admitted, and how many upstream sockets their sessions open
MaxSessions == 2
MaxSockets == 2

NewSession(clientIp) ==
    [ip |-> clientIp, ws |-> "OPEN", destroyed |-> FALSE, irc |-> 0, sockets |-> <<>>,
     quits |-> <<>>, decrements |-> 0, removals |-> 0]

WithSession(id, sess) ==
    [i \in (DOMAIN sessions) \cup {id} |-> IF i = id THEN sess ELSE sessions[i]]

ClientOf(id) == [id |-> id, ipAddress |-> sessions[id].ip]

RECURSIVE SocketsCreated(_)
SocketsCreated(ids) ==
    IF ids = {} THEN 0
    ELSE LET id == CHOOSE i \in ids : TRUE
         IN Len(sessions[id].sockets) + SocketsCreated(ids \ {id})

\* IrcClient.quit of src/webirc.ts, as it acts on the socket of upstream u
UpstreamQuit(sockets, u) == [sockets EXCEPT ![u] = SocketEnd(@)]

\* IrcClient.destroy of src/webirc.ts, as it acts on the socket of upstream u
UpstreamDestroy(sockets, u) == [sockets EXCEPT ![u] = IF Live(@) THEN "destroyed" ELSE @]

\* the reason a disconnect command carries
CommandQuitMessages == {"reason"}

QuitCall(by, message, upstream) == [by |-> by, message |-> message, upstream |-> upstream]

\* destroy() that ignores the destroyed flag and keeps the reference to the upstream
ClientConnectionDestroyAgain(sess) ==
    [sess EXCEPT !.destroyed = TRUE,
                 !.quits = IF sess.irc # 0
                           THEN Append(@, QuitCall("teardown", "default", sess.irc))
                           ELSE @,
                 !.sockets = IF sess.irc # 0 THEN UpstreamQuit(@, sess.irc) ELSE @,
                 !.ws = IF @ = "OPEN" THEN "CLOSING" ELSE @]

\* ClientConnection.destroy
ClientConnectionDestroy(sess) ==
    IF sess.destroyed THEN sess
    ELSE [sess EXCEPT !.destroyed = TRUE,
                      !.quits = IF sess.irc # 0
                                THEN Append(@, QuitCall("teardown", "default", sess.irc))
                                ELSE @,
                      !.sockets = IF sess.irc # 0 THEN UpstreamQuit(@, sess.irc) ELSE @,
                      !.irc = 0,
                      !.ws = IF @ = "OPEN" THEN "CLOSING" ELSE @]

\* an upgrade request that passes the checks of handleUpgrade: onConnection
AdmitSession(clientIp) ==
    /\ ~stopped
    /\ clientIdCounter < MaxSessions
    /\ Cardinality(connectedClients) < MaxClients
    /\ MapGet(connectionsPerIp, clientIp, 0) < MaxConnectionsPerIp
    /\ onConnection(clientIp)
    /\ sessions' = WithSession(clientIdCounter + 1, NewSession(clientIp))
    /\ UNCHANGED <<variant, allowedOrigins, trustProxy, stopped, lastReq, lastResp>>
    /\ UNCHANGED <<queryVars, sessionVars, framingVars, hostnameVars, timerVars>>

\* a connect command for an allowed server: ClientConnection.handleConnect
ConnectCommand(id) ==
    /\ id \in DOMAIN sessions
    /\ sessions[id].ws = "OPEN"
    /\ ~sessions[id].destroyed
    /\ SocketsCreated(DOMAIN sessions) < MaxSockets
    /\ LET sess == sessions[id]
           old == IF sess.irc # 0 THEN UpstreamDestroy(sess.sockets, sess.irc)
                  ELSE sess.sockets
       IN sessions' = WithSession(id, [sess EXCEPT !.sockets = Append(old, "connecting"),
                                                   !.irc = Len(old) + 1])
    /\ UNCHANGED <<gwVars, queryVars, sessionVars, framingVars, hostnameVars, timerVars>>

\* a disconnect command with a reason of its own: handleDisconnect
DisconnectCommand(id, message) ==
    /\ id \in DOMAIN sessions
    /\ sessions[id].ws = "OPEN"
    /\ ~sessions[id].destroyed
    /\ LET sess == sessions[id]
       IN sessions' = WithSession(id,
              IF sess.irc # 0
              THEN [sess EXCEPT !.quits = Append(@, QuitCall("command", message, sess.irc)),
                                !.sockets = UpstreamQuit(@, sess.irc),
                                !.irc = 0]
              ELSE sess)
    /\ UNCHANGED <<gwVars, queryVars, sessionVars, framingVars, hostnameVars, timerVars>>

\* an upstream socket connects; if quit() ended it while it was connecting, it is
\* closed as soon as the QUIT line is flushed
UpstreamConnected(id, u) ==
    /\ id \in DOMAIN sessions
    /\ u \in DOMAIN sessions[id].sockets
    /\ sessions[id].sockets[u] \in {"connecting", "ending"}
    /\ sessions' = WithSession(id, [sessions[id] EXCEPT
                       !.sockets[u] = IF @ = "connecting" THEN "open" ELSE "ended"])
    /\ UNCHANGED <<gwVars, queryVars, sessionVars, framingVars, hostnameVars, timerVars>>

\* the 'close' event of an upstream socket
UpstreamClosed(id, u) ==
    /\ id \in DOMAIN sessions
    /\ u \in DOMAIN sessions[id].sockets
    /\ ClosePending(sessions[id].sockets[u])
    /\ sessions' = WithSession(id, [sessions[id] EXCEPT !.sockets[u] = "closed"])
    /\ UNCHANGED <<gwVars, queryVars, sessionVars, framingVars, hostnameVars, timerVars>>

\* the 'close' event of the WebSocket: ClientConnection.onClose, then the handler
\* onConnection has installed
WebSocketClosed(id) ==
    /\ id \in DOMAIN sessions
    /\ sessions[id].ws \in {"OPEN", "CLOSING"}
    /\ LET sess == ClientConnectionDestroy([sessions[id] EXCEPT !.ws = "CLOSED"])
           newCount == MapGet(connectionsPerIp, sess.ip, 1) - 1
       IN /\ connectedClients' = {c \in connectedClients : c.id # id}
          /\ connectionsPerIp' = IF newCount <= 0 THEN MapDelete(connectionsPerIp, sess.ip)
                                 ELSE MapSet(connectionsPerIp, sess.ip, newCount)
          /\ sessions' = WithSession(id,
                 [sess EXCEPT !.removals = IF ClientOf(id) \in connectedClients
                                           THEN @ + 1 ELSE @,
                              !.decrements = IF connectionsPerIp' # connectionsPerIp
                                             THEN @ + 1 ELSE @])
    /\ openSockets' = openSockets \ {ClientOf(id)}
    /\ UNCHANGED <<variant, allowedOrigins, trustProxy, clientIdCounter, stopped,
                   lastReq, lastResp>>
    /\ UNCHANGED <<queryVars, sessionVars, framingVars, hostnameVars, timerVars>>

\* stop() that destroys the sessions and leaves the IP counter table as it is
GatewayStopKeepsCounters ==
    /\ ~stopped
    /\ stopped' = TRUE
    /\ sessions' = [id \in DOMAIN sessions |->
                       IF ClientOf(id) \in connectedClients
                       THEN [ClientConnectionDestroy(sessions[id]) EXCEPT !.removals = @ + 1]
                       ELSE sessions[id]]
    /\ connectedClients' = {}
    /\ UNCHANGED <<variant, allowedOrigins, trustProxy, clientIdCounter, openSockets,
                   connectionsPerIp, lastReq, lastResp>>
    /\ UNCHANGED <<queryVars, sessionVars, framingVars, hostnameVars, timerVars>>

\* Gateway.stop: every registered session is destroyed, both maps are cleared
GatewayStop ==
    /\ ~stopped
    /\ stopped' = TRUE
    /\ sessions' = [id \in DOMAIN sessions |->
                       IF ClientOf(id) \in connectedClients
                       THEN [ClientConnectionDestroy(sessions[id]) EXCEPT !.removals = @ + 1]
                       ELSE sessions[id]]
    /\ connectedClients' = {}
    /\ connectionsPerIp' = EmptyMap
    /\ UNCHANGED <<variant, allowedOrigins, trustProxy, clientIdCounter, openSockets,
                   lastReq, lastResp>>
    /\ UNCHANGED <<queryVars, sessionVars, framingVars, hostnameVars, timerVars>>

\* a gateway that listens and has admitted nobody
TeardownInit ==
    /\ variant = "T"
    /\ allowedOrigins = <<>>
    /\ trustProxy = FALSE
    /\ connectedClients = {}
    /\ connectionsPerIp = EmptyMap
    /\ clientIdCounter = 0
    /\ openSockets = {}
    /\ stopped = FALSE
    /\ lastReq = NoRequest
    /\ lastResp = NoResponse
    /\ QueryIdle
    /\ SessionIdle
    /\ FramingIdle
    /\ TeardownIdle
    /\ HostnameIdle
    /\ TimersIdle

TeardownNext ==
    \/ \E clientIp \in IPs : AdmitSession(clientIp)
    \/ \E id \in 1..MaxSessions : ConnectCommand(id)
    \/ \E id \in 1..MaxSessions, message \in CommandQuitMessages :
          DisconnectCommand(id, message)
    \/ \E id \in 1..MaxSessions, u \in 1..MaxSockets : UpstreamConnected(id, u)
    \/ \E id \in 1..MaxSessions, u \in 1..MaxSockets : UpstreamClosed(id, u)
    \/ \E id \in 1..MaxSessions : WebSocketClosed(id)
    \/ GatewayStop

SpecTeardown == TeardownInit /\ [][TeardownNext]_vars

QuitsBy(sess, by) == SelectSeq(sess.quits, LAMBDA q : q.by = by)

QuitsOf(sess, u) == SelectSeq(sess.quits, LAMBDA q : q.upstream = u)

\* C19: whichever of WebSocket close and stop() occur, and in whatever order, the
\* teardown of a session quits the upstream at most once, with the default quit
\* message, lowers the IP counter at most once and removes the session from the
\* registry at most once; no counter is zero or less (the entry is deleted at
\* zero), and every counter is the number of registered sessions of its IP.
C19_TeardownOnce ==
    /\ \A id \in DOMAIN sessions :
          LET sess == sessions[id]
          IN /\ Len(QuitsBy(sess, "teardown")) <= 1
             /\ \A k \in 1..Len(sess.quits) :
                   sess.quits[k].by = "teardown" => sess.quits[k].message = "default"
             /\ \A u \in DOMAIN sess.sockets : Len(QuitsOf(sess, u)) <= 1
             /\ sess.decrements <= 1
             /\ sess.removals <= 1
             /\ sess.ws = "CLOSED" => (sess.destroyed /\ ClientOf(id) \notin connectedClients)
             /\ (sess.destroyed /\ sess.ws = "CLOSED" /\ ~stopped)
                   => (sess.decrements = 1 /\ sess.removals = 1)
    /\ \A ip \in DOMAIN connectionsPerIp :
          /\ connectionsPerIp[ip] >= 1
          /\ connectionsPerIp[ip] = SessionsOf(connectedClients, ip)
    /\ \A ip \in IPs : ip \notin DOMAIN connectionsPerIp => SessionsOf(connectedClients, ip) = 0

\* stop() destroyed a session that had an upstream, and its WebSocket closed afterwards
C19_Witness ==
    /\ stopped
    /\ \E id \in DOMAIN sessions :
          /\ sessions[id].ws = "CLOSED"
          /\ Len(QuitsBy(sessions[id], "teardown")) = 1
          /\ sessions[id].removals = 1
          /\ \E other \in DOMAIN sessions : other # id /\ sessions[other].ip = sessions[id].ip

\* an upstream socket that is connecting or open; "ending" is a connecting socket
\* on which end() was called
LiveUpstream(s) == s \in {"connecting", "ending", "open"}

\* C20: a session has at most one upstream socket that is connecting or open.
C20_OneLiveUpstream ==
    \A id \in DOMAIN sessions :
        Cardinality({u \in DOMAIN sessions[id].sockets :
                        LiveUpstream(sessions[id].sockets[u])}) <= 1

\* --------------------------------------------- the commands of one session:
\* ClientConnection of src/unnamed/part_002 with the IrcClient of src/webirc.ts
\* (variant "webirc.ts"), and handleClientMessage of the Gateway class of
\* src/src/gateway.ts lines 242-654 with the IrcClient of src/src/irc-client.ts
\* (variant "irc-client.ts")

\* how many inbound messages one session handles
MaxCommands == 3
\* how many bytes one 'data' event carries at most
MaxChunk == 3

\* a field the message does not have
Undefined == <<-1>>
\* the field encoding when the message does not have it
NoName == "(undefined)"
\* "undefined", what a template literal makes of a missing field
UndefinedText == <<117, 110, 100, 101, 102, 105, 110, 101, 100>>

\* `${value}`
ToText(value) == IF value = Undefined THEN UndefinedText ELSE value

\* String.toLowerCase on ASCII letters
toLowerCase(text) ==
    [i \in 1..Len(text) |-> IF text[i] >= 65 /\ text[i] <= 90 THEN text[i] + 32 ELSE text[i]]

\* "irc.a", the host of the allowlist entry
ListedHost == <<105, 114, 99, 46, 97>>
\* "IRC.a"
ListedHostUpper == <<73, 82, 67, 46, 97>>
\* "irc.b"
OtherHost == <<105, 114, 99, 46, 98>>
\* "so long"
QuitReason == <<115, 111, 32, 108, 111, 110, 103>>
\* "Server not allowed"
ServerNotAllowed == <<83, 101, 114, 118, 101, 114, 32, 110, 111, 116, 32, 97, 108, 108, 111,
                      119, 101, 100>>
\* "Invalid encoding: "
InvalidEncoding == <<73, 110, 118, 97, 108, 105, 100, 32, 101, 110, 99, 111, 100, 105, 110,
                     103, 58, 32>>
\* "QUIT"
QuitBare == <<81, 85, 73, 84>>

\* config.upstream.allowedServers / config.allowedServers: nothing, or irc.a:6667
CommandAllowLists == {{}, {<<ListedHost, 6667>>}}

\* an inbound message as the handlers see it: whether it parses, its envelope event,
\* the command kind, whether the command has a data (event) object, and the fields of it
BaseMessage ==
    [valid |-> TRUE, envelope |-> "sic-client-event", type |-> "none", hasData |-> TRUE,
     nick |-> Undefined, hasServer |-> FALSE, host |-> Undefined, port |-> 0,
     line |-> Undefined, encoding |-> NoName, reason |-> Undefined]

ConnectMessage(nick, host, port) ==
    [BaseMessage EXCEPT !.type = "connect", !.nick = nick, !.hasServer = TRUE,
                        !.host = host, !.port = port]

DisconnectMessage(reason) == [BaseMessage EXCEPT !.type = "disconnect", !.reason = reason]

RawMessage(line) == [BaseMessage EXCEPT !.type = "raw", !.line = line]

EncodingMessage(name) == [BaseMessage EXCEPT !.type = "encoding", !.encoding = name]

\* messages with every field their command needs
WellFormedMessages ==
    {ConnectMessage(CleanNick, ListedHost, 6667),
     ConnectMessage(CleanNick, ListedHostUpper, 6667),
     ConnectMessage(CleanNick, OtherHost, 6667),
     ConnectMessage(CleanNick, ListedHost, 6668),
     DisconnectMessage(QuitReason),
     [DisconnectMessage(Undefined) EXCEPT !.hasData = FALSE],
     RawMessage(ClientRawLine),
     EncodingMessage("latin1"),
     EncodingMessage("bogus")}

\* text that is no JSON, another envelope, a command kind there is none of, and commands
\* without a field they need
MalformedMessages ==
    {[BaseMessage EXCEPT !.valid = FALSE],
     [ConnectMessage(CleanNick, ListedHost, 6667) EXCEPT !.envelope = "other"],
     [RawMessage(ClientRawLine) EXCEPT !.type = "join"],
     ConnectMessage(Undefined, ListedHost, 6667),
     [ConnectMessage(CleanNick, Undefined, 0) EXCEPT !.hasServer = FALSE],
     RawMessage(Undefined),
     [RawMessage(Undefined) EXCEPT !.hasData = FALSE],
     EncodingMessage(NoName)}

CommandMessages == WellFormedMessages \cup MalformedMessages

\* what a session sends on its WebSocket
GatewayError(text) == [event |-> "sic-gateway-event", type |-> "error", line |-> text]

\* setupIrcHandlers / setupIrcEventHandlers: an event of the IrcClient as outbound message
ForwardEvent(ev) ==
    [event |-> IF ev.type = "raw" /\ ~ev.fromServer THEN "sic-server-event"
               ELSE "sic-irc-event",
     type |-> ev.type, line |-> ev.line]

Forward(events) == [k \in 1..Len(events) |-> ForwardEvent(events[k])]

\* the session and the IrcClient it refers to, at the start of a handler; events, wrote,
\* gateway and escaped are what the handler emits, writes upstream, sends itself and throws
Session ==
    [irc |-> irc, created |-> ircCreated, stale |-> staleSockets, sock |-> ircSocket,
     wr |-> writable, enc |-> characterEncoding, client |-> Fresh, opts |-> options,
     timer |-> pingIntervalTimer, events |-> <<>>, wrote |-> <<>>, gateway |-> <<>>,
     escaped |-> FALSE]

\* the IrcClient has run a method on the referenced client: st is the record after it
After(s, st) ==
    [s EXCEPT !.client = st, !.events = st.events,
              !.wrote = SubSeq(st.written, Len(ircClient.written) + 1, Len(st.written))]

\* this.irc = null / client.ircClient = null: the client lives on by itself until its
\* socket has closed
Detach(s) ==
    [s EXCEPT !.irc = 0, !.stale = IF ClosePending(s.sock) THEN @ + 1 ELSE @,
              !.sock = "none", !.wr = FALSE, !.enc = "utf8", !.client = NoClient,
              !.opts = NoOptions, !.timer = FALSE]

\* new IrcClient(), setupIrcHandlers(), connect(options)
Attach(s, opts) ==
    [s EXCEPT !.irc = s.created + 1, !.created = @ + 1, !.sock = "connecting", !.wr = TRUE,
              !.enc = opts.encoding, !.client = NoClient, !.opts = opts, !.timer = FALSE]

\* IrcClient.destroy() of either snapshot on the referenced client
DestroyUpstream(s) ==
    [s EXCEPT !.stale = IF ClosePending(s.sock) THEN @ + 1 ELSE @, !.sock = "none",
              !.wr = FALSE, !.timer = FALSE, !.client = stopPingTimer(@)]

\* IrcClient.quit(message) of src/webirc.ts on the referenced client
QuitWebirc(s, message) ==
    LET line == IF message # <<>> THEN QuitVerb \o message ELSE QuitBare
        st == cleanup(IF s.sock \notin {"none", "destroyed", "closed"}
                      THEN sendRaw(s.client, line) ELSE s.client)
    IN [After(s, st) EXCEPT !.sock = SocketEnd(s.sock), !.wr = FALSE, !.timer = FALSE]

\* IrcClient.quit(message) of src/irc-client.ts on the referenced client
QuitIrcClient(s, message) ==
    LET line == IF message # <<>> THEN QuitVerb \o message ELSE QuitBare
        st == stopPingTimer(IF s.wr THEN IrcClientSend(s.client, line) ELSE s.client)
    IN [After(s, st) EXCEPT !.sock = IF s.wr THEN SocketEnd(s.sock) ELSE s.sock,
                            !.wr = FALSE, !.timer = FALSE]

\* "bogus", "latin1", "utf8" as they stand in an error message
NameText(name) ==
    CASE name = "bogus" -> <<98, 111, 103, 117, 115>>
      [] name = "latin1" -> <<108, 97, 116, 105, 110, 49>>
      [] OTHER -> <<117, 116, 102, 56>>

\* ClientConnection.isServerAllowed(host, port)
ServerAllowed(host, port) ==
    \/ allowAnyServer
    \/ \E s \in allowedServers : toLowerCase(s[1]) = toLowerCase(host) /\ s[2] = port

\* handleConnect that opens the new upstream and leaves the prior one as it is
handleConnectInKeepsUpstream(s, m) ==
    IF ~m.hasData \/ ~m.hasServer
    THEN s
    ELSE IF ~ServerAllowed(m.host, m.port)
    THEN [s EXCEPT !.gateway = <<GatewayError(ServerNotAllowed)>>]
    ELSE Attach(s, MakeOptions(ToText(m.nick), <<>>, <<>>, FALSE, "utf8"))

\* ClientConnection.handleConnect; a TypeError on a missing data or server object is
\* caught by onMessage and nothing has happened by then
handleConnectIn(s, m) ==
    IF ~m.hasData \/ ~m.hasServer
    THEN s
    ELSE IF ~ServerAllowed(m.host, m.port)
    THEN [s EXCEPT !.gateway = <<GatewayError(ServerNotAllowed)>>]
    ELSE Attach(IF s.irc # 0 THEN DestroyUpstream(s) ELSE s,
                MakeOptions(ToText(m.nick), <<>>, <<>>, FALSE, "utf8"))

\* handleDisconnect that quits the upstream and keeps the reference
handleDisconnectInKeepsUpstream(s, m) ==
    LET reason == IF m.hasData /\ m.reason # Undefined THEN m.reason ELSE DefaultQuitMessage
    IN IF s.irc # 0 THEN QuitWebirc(s, reason) ELSE s

\* ClientConnection.handleDisconnect
handleDisconnectIn(s, m) ==
    LET reason == IF m.hasData /\ m.reason # Undefined THEN m.reason ELSE DefaultQuitMessage
    IN IF s.irc # 0 THEN Detach(QuitWebirc(s, reason)) ELSE s

\* ClientConnection.handleRaw: isConnected() is socket !== null && !socket.destroyed
handleRawIn(s, m) ==
    IF s.irc # 0 /\ s.sock \notin {"none", "destroyed", "closed"}
    THEN IF ~m.hasData THEN s ELSE After(s, sendRaw(s.client, ToText(m.line)))
    ELSE s

\* handleEncoding that applies the name before it validates it
handleEncodingInUnvalidated(s, m) ==
    IF ~m.hasData \/ m.encoding = NoName
    THEN s
    ELSE IF s.irc # 0 THEN [s EXCEPT !.enc = m.encoding] ELSE s

\* ClientConnection.handleEncoding; isValidEncoding(undefined) is a TypeError
handleEncodingIn(s, m) ==
    IF ~m.hasData \/ m.encoding = NoName
    THEN s
    ELSE IF ~isValidEncoding(m.encoding)
    THEN [s EXCEPT !.gateway = <<GatewayError(InvalidEncoding \o NameText(m.encoding))>>]
    ELSE IF s.irc # 0 THEN [s EXCEPT !.enc = m.encoding] ELSE s

\* ClientConnection.handleCommand
handleCommandIn(s, m) ==
    CASE m.type = "connect" -> handleConnectIn(s, m)
      [] m.type = "disconnect" -> handleDisconnectIn(s, m)
      [] m.type = "raw" -> handleRawIn(s, m)
      [] m.type = "encoding" -> handleEncodingIn(s, m)
      [] OTHER -> s

\* config.limits.messageRateLimit as configured for these runs: no message is refused
CommandRateLimit == MaxCommands

\* ClientConnection.onMessage without encryption: decryptMessage is JSON.parse, and
\* what it or a handler throws is logged
onMessageIn(s, m) ==
    IF destroyed
    THEN s
    ELSE IF messageCount + 1 > CommandRateLimit
    THEN [s EXCEPT !.gateway = <<GatewayError(<<>>)>>]
    ELSE IF ~m.valid \/ m.envelope # "sic-client-event"
    THEN s
    ELSE handleCommandIn(s, m)

\* Gateway.handleDisconnectCommand
handleDisconnectCommand(s, quitReason) ==
    IF s.irc # 0
    THEN Detach(QuitIrcClient(s, IF quitReason # Undefined THEN quitReason
                                 ELSE DefaultQuitMessage))
    ELSE s

\* Gateway.handleRawCommand
handleRawCommand(s, rawData) ==
    IF rawData \notin {Undefined, <<>>} /\ s.irc # 0
    THEN After(s, IrcClientSend(s.client, rawData))
    ELSE s

\* Gateway.handleConnectCommand
handleConnectCommand(s, m) ==
    LET host == IF m.hasData /\ m.hasServer THEN m.host ELSE Undefined
        port == IF m.hasData /\ m.hasServer THEN m.port ELSE 0
        nick == IF m.hasData THEN m.nick ELSE Undefined
    IN IF host \in {Undefined, <<>>} \/ port = 0 \/ nick \in {Undefined, <<>>}
       THEN s
       ELSE IF allowedServers # {} /\ <<host, port>> \notin allowedServers
       THEN [s EXCEPT !.gateway = <<GatewayError(ServerNotAllowed)>>]
       ELSE Attach(IF s.irc # 0 THEN DestroyUpstream(s) ELSE s,
                   MakeOptions(nick, <<>>, <<>>, FALSE, "utf8"))

\* Gateway.handleClientMessage
handleClientMessage(s, m) ==
    IF ~m.valid \/ m.envelope # "sic-client-event"
    THEN s
    ELSE CASE m.type = "disconnect" ->
                  handleDisconnectCommand(s, IF m.hasData THEN m.reason ELSE Undefined)
           [] m.type = "raw" -> handleRawCommand(s, IF m.hasData THEN m.line ELSE Undefined)
           [] m.type = "connect" -> handleConnectCommand(s, m)
           [] OTHER -> s

\* the handler has run: its effect on the session, and what it did
Commit(e, op, m, open) ==
    /\ irc' = e.irc
    /\ ircCreated' = e.created
    /\ staleSockets' = e.stale
    /\ ircSocket' = e.sock
    /\ writable' = e.wr
    /\ characterEncoding' = e.enc
    /\ ircClient' = e.client
    /\ options' = e.opts
    /\ pingIntervalTimer' = e.timer
    /\ lastStep' = [op |-> op, msg |-> m,
                    sent |-> IF open THEN e.gateway \o Forward(e.events) ELSE <<>>,
                    wrote |-> e.wrote, escaped |-> e.escaped]

\* what no handler of a session touches
commandsFixed ==
    <<gwVars, blockPrivateHosts, allowedServers, upstreamOpened, now, encryptionEnabled,
      allowAnyServer, messageWindowStart, socket, ircEncoding, orphans, pending, window,
      stream, calls, teardownVars, hostnameVars, timerVars>>

\* the WebSocket's 'message' event
SessionMessage(m) ==
    /\ wsState = "OPEN"
    /\ opCount < MaxCommands
    /\ Commit(IF variant = "webirc.ts" THEN onMessageIn(Session, m)
              ELSE handleClientMessage(Session, m),
              "message", m, TRUE)
    /\ opCount' = opCount + 1
    /\ messageCount' = IF variant = "webirc.ts" /\ ~destroyed THEN messageCount + 1
                       ELSE messageCount
    /\ consumed' = IF irc' # irc THEN 0 ELSE consumed
    /\ chunkStart' = IF irc' # irc THEN 0 ELSE chunkStart
    /\ UNCHANGED <<wsState, destroyed>>
    /\ UNCHANGED commandsFixed

\* the 'connect' event of the upstream socket
UpstreamConnectEvent ==
    /\ irc # 0
    /\ ircSocket = "connecting"
    /\ Commit([After(Session, IF variant = "irc-client.ts"
                              THEN handleSocketConnected(Fresh, options)
                              ELSE onSocketConnect(Fresh, options))
                  EXCEPT !.sock = "open", !.timer = TRUE],
              "upstream", NoMessage, wsState = "OPEN")
    /\ UNCHANGED <<wsState, destroyed, opCount, messageCount, consumed, chunkStart>>
    /\ UNCHANGED commandsFixed

\* a 'data' event of the upstream socket with the next n bytes of the stream
UpstreamDataEvent(n) ==
    /\ irc # 0
    /\ ircSocket = "open"
    /\ n \in 1..Min(MaxChunk, Len(stream) - consumed)
    /\ LET data == SubSeq(stream, consumed + 1, consumed + n)
       IN Commit(After(Session, IF variant = "irc-client.ts"
                                THEN handleIncomingData(Fresh, data)
                                ELSE onData(Fresh, data)),
                 "data", NoMessage, wsState = "OPEN")
    /\ consumed' = consumed + n
    /\ chunkStart' = consumed
    /\ UNCHANGED <<wsState, destroyed, opCount, messageCount>>
    /\ UNCHANGED commandsFixed

\* a close handler that connects again
UpstreamCloseEventReconnects ==
    /\ irc # 0
    /\ ClosePending(ircSocket)
    /\ Commit([After(Session, Closed(Fresh)) EXCEPT !.sock = "connecting", !.wr = TRUE,
                                                    !.created = @ + 1, !.timer = FALSE],
              "upstream", NoMessage, wsState = "OPEN")
    /\ UNCHANGED <<wsState, destroyed, opCount, messageCount, consumed, chunkStart>>
    /\ UNCHANGED commandsFixed

\* the 'close' event of the socket of the referenced IrcClient
UpstreamCloseEvent ==
    /\ irc # 0
    /\ ClosePending(ircSocket)
    /\ Commit([After(Session, Closed(Fresh)) EXCEPT !.sock = "closed", !.wr = FALSE,
                                                    !.timer = FALSE],
              "upstream", NoMessage, wsState = "OPEN")
    /\ UNCHANGED <<wsState, destroyed, opCount, messageCount, consumed, chunkStart>>
    /\ UNCHANGED commandsFixed

\* the socket of the referenced IrcClient fails: 'error', then 'close'
UpstreamErrorEvent ==
    /\ irc # 0
    /\ Live(ircSocket)
    /\ Commit([After(Session, Closed(Emit(Fresh, "error")))
                  EXCEPT !.sock = "closed", !.wr = FALSE, !.timer = FALSE],
              "failure", NoMessage, wsState = "OPEN")
    /\ UNCHANGED <<wsState, destroyed, opCount, messageCount, consumed, chunkStart>>
    /\ UNCHANGED commandsFixed

\* the 'close' event of the socket of an IrcClient the session has let go: its
\* listeners still forward to the WebSocket
DetachedCloseEvent ==
    /\ staleSockets > 0
    /\ Commit([Session EXCEPT !.stale = @ - 1, !.events = Closed(NoClient).events],
              "detached", NoMessage, wsState = "OPEN")
    /\ UNCHANGED <<wsState, destroyed, opCount, messageCount, consumed, chunkStart>>
    /\ UNCHANGED commandsFixed

\* the WebSocket's 'close' event: ClientConnection.onClose, Gateway.handleClientDisconnect
SessionClosed ==
    /\ wsState = "OPEN"
    /\ wsState' = "CLOSED"
    /\ IF variant = "webirc.ts"
       THEN /\ destroyed' = TRUE
            /\ Commit(IF irc # 0 THEN Detach(QuitWebirc(Session, DefaultQuitMessage))
                      ELSE Session,
                      "closed", NoMessage, FALSE)
       ELSE /\ destroyed' = destroyed
            /\ Commit(IF irc # 0 THEN QuitIrcClient(Session, DefaultQuitMessage)
                      ELSE Session,
                      "closed", NoMessage, FALSE)
    /\ consumed' = IF irc' # irc THEN 0 ELSE consumed
    /\ chunkStart' = IF irc' # irc THEN 0 ELSE chunkStart
    /\ UNCHANGED <<opCount, messageCount>>
    /\ UNCHANGED commandsFixed

\* "\xE9\r\n\xE9\r\n": two lines of one byte that is a letter in latin1 and no
\* character in UTF-8
CommandStream == <<233, 13, 10, 233, 13, 10>>

\* a session whose WebSocket has just been admitted
CommandsInit ==
    /\ TeardownIdle
    /\ HostnameIdle
    /\ TimersIdle
    /\ GatewayIdle
    /\ variant \in {"webirc.ts", "irc-client.ts"}
    /\ blockPrivateHosts = FALSE
    /\ upstreamOpened = [host |-> "none"]
    /\ allowedServers \in CommandAllowLists
    /\ allowAnyServer \in (IF variant = "webirc.ts" THEN BOOLEAN ELSE {FALSE})
    /\ now = 0
    /\ encryptionEnabled = FALSE
    /\ wsState = "OPEN"
    /\ destroyed = FALSE
    /\ messageCount = 0
    /\ messageWindowStart = 0
    /\ irc = 0
    /\ socket = "none"
    /\ ircEncoding = "utf8"
    /\ ircCreated = 0
    /\ orphans = 0
    /\ pending = <<>>
    /\ window = NoWindow
    /\ lastStep = NoStep
    /\ LifecycleIdle
    /\ stream = CommandStream
    /\ consumed = 0
    /\ chunkStart = 0
    /\ characterEncoding = "utf8"
    /\ writable = FALSE
    /\ ircSocket = "none"
    /\ ircClient = NoClient

CommandsNext ==
    \/ \E m \in CommandMessages : SessionMessage(m)
    \/ UpstreamConnectEvent
    \/ \E n \in 1..MaxChunk : UpstreamDataEvent(n)
    \/ UpstreamCloseEvent
    \/ UpstreamErrorEvent
    \/ DetachedCloseEvent
    \/ SessionClosed

SpecCommands == CommandsInit /\ [][CommandsNext]_vars

\* an allowlist of upstream servers is configured and in force
AllowlistActive == allowedServers # {} /\ (variant = "webirc.ts" => ~allowAnyServer)

\* host:port is an entry of the allowlist, letter case of the host aside
MatchesAllowlist(host, port) ==
    \E s \in allowedServers : toLowerCase(s[1]) = toLowerCase(host) /\ s[2] = port

\* C21: with an allowlist in force, a connect command whose host:port matches no entry
\* (letter case aside) sends one gateway error and changes nothing of the session: the
\* upstream is neither destroyed nor replaced and no socket is opened; a connect
\* command whose target matches is accepted and opens a new upstream
C21_AllowlistConnect ==
    [][(/\ lastStep'.op = "message"
        /\ lastStep'.msg \in WellFormedMessages
        /\ lastStep'.msg.type = "connect"
        /\ AllowlistActive)
       => IF MatchesAllowlist(lastStep'.msg.host, lastStep'.msg.port)
          THEN /\ irc' = ircCreated + 1
               /\ ircCreated' = ircCreated + 1
               /\ ircSocket' = "connecting"
          ELSE /\ lastStep'.sent = <<GatewayError(ServerNotAllowed)>>
               /\ lastStep'.wrote = <<>>
               /\ ircClient' = Fresh
               /\ UNCHANGED <<irc, ircCreated, ircSocket, writable, staleSockets,
                              characterEncoding, options, pingIntervalTimer>>]_vars

\* the quit message of a disconnect command: its reason, else config.defaults.quitMessage
QuitMessageOf(m) == IF m.hasData /\ m.reason # Undefined THEN m.reason ELSE DefaultQuitMessage

\* the step has handled a message that has every field its command needs
HandledCommand(step, type) ==
    /\ step.op = "message"
    /\ step.msg \in WellFormedMessages
    /\ step.msg.type = type

\* C22: a disconnect command on a session with an upstream quits it with the reason
\* given, or with the default quit message if none is given (the QUIT line is written
\* if the socket still takes writes), and clears the reference; on a session without
\* upstream it does nothing; a raw command on a session without upstream writes
\* nothing, sends nothing and changes nothing
C22_Disconnect ==
    [][/\ HandledCommand(lastStep', "disconnect") =>
            IF irc # 0
            THEN /\ irc' = 0
                 /\ ircCreated' = ircCreated
                 /\ lastStep'.wrote =
                        IF writable
                        THEN <<encodeString(QuitVerb \o QuitMessageOf(lastStep'.msg)
                                            \o IRC_LINE_ENDING, characterEncoding)>>
                        ELSE <<>>
            ELSE /\ lastStep'.sent = <<>>
                 /\ lastStep'.wrote = <<>>
                 /\ UNCHANGED <<irc, ircCreated, ircSocket, writable, staleSockets, ircClient>>
       /\ (HandledCommand(lastStep', "raw") /\ irc = 0) =>
            /\ lastStep'.sent = <<>>
            /\ lastStep'.wrote = <<>>
            /\ UNCHANGED <<irc, ircCreated, ircSocket, writable, staleSockets, ircClient>>]_vars

\* a disconnect command with a reason has quit the upstream of the session, the QUIT
\* line carries the reason, and the reference is cleared
C22_Witness ==
    /\ lastStep.op = "message"
    /\ lastStep.msg = DisconnectMessage(QuitReason)
    /\ lastStep.wrote = <<encodeString(QuitVerb \o QuitReason \o IRC_LINE_ENDING, "utf8")>>
    /\ irc = 0
    /\ ircCreated = 1

\* C23: a raw command is written to the upstream socket, as it is and once, only when
\* the session has an upstream whose socket is connected; otherwise (no upstream, the
\* upstream closed or destroyed, or after a disconnect command) it writes nothing, sends
\* nothing to the client and changes nothing
C23_RawOnlyWhenConnected ==
    [][HandledCommand(lastStep', "raw") =>
           IF irc # 0 /\ ircSocket = "open"
           THEN lastStep'.wrote = <<encodeString(lastStep'.msg.line \o IRC_LINE_ENDING,
                                                 characterEncoding)>>
           ELSE /\ lastStep'.wrote = <<>>
                /\ lastStep'.sent = <<>>
                /\ ircClient' = Fresh
                /\ UNCHANGED <<irc, ircCreated, ircSocket, writable, staleSockets,
                               characterEncoding, options, pingIntervalTimer>>]_vars

\* C24: in ClientConnection, an encoding command with an unsupported name sends one
\* gateway error and leaves the character set of the upstream as it is; one with a
\* supported name sets the character set of the upstream there is and touches neither
\* the receive buffer nor anything else; a data event then decodes the lines it
\* completes, buffered bytes included, with the character set in force at that moment,
\* and emits no line again
C24_EncodingCommand ==
    [][/\ (HandledCommand(lastStep', "encoding") /\ variant = "webirc.ts") =>
            /\ lastStep'.sent =
                   IF isValidEncoding(lastStep'.msg.encoding) THEN <<>>
                   ELSE <<GatewayError(InvalidEncoding \o NameText(lastStep'.msg.encoding))>>
            /\ characterEncoding' =
                   IF isValidEncoding(lastStep'.msg.encoding) /\ irc # 0
                   THEN lastStep'.msg.encoding
                   ELSE characterEncoding
            /\ ircClient' = Fresh
            /\ lastStep'.wrote = <<>>
            /\ UNCHANGED <<irc, ircCreated, ircSocket, writable, staleSockets, consumed>>
       /\ (lastStep'.op = "data" /\ variant = "webirc.ts") =>
            /\ RawLines' = SelectSeq(Decoded(TerminatedLines(
                                         ircClient.receiveBuffer
                                         \o SubSeq(stream, consumed + 1, consumed'))),
                                     NotEmpty)
            /\ characterEncoding' = characterEncoding]_vars

\* the character set has been swapped while the first byte of a line was buffered
C24_Witness ==
    /\ variant = "webirc.ts"
    /\ lastStep.op = "message"
    /\ lastStep.msg = EncodingMessage("latin1")
    /\ characterEncoding = "latin1"
    /\ ircClient.receiveBuffer = <<233>>
    /\ consumed = 4

\* C25: a malformed inbound message (text that is no JSON, another envelope event, an
\* unknown command kind, or a connect, raw or encoding command without a field it
\* needs) is ignored: no exception leaves the handler, nothing is sent to the client,
\* nothing is written upstream, the upstream reference is as before and the WebSocket
\* stays open
C25_MalformedIgnored ==
    [][(lastStep'.op = "message" /\ lastStep'.msg \in MalformedMessages) =>
           /\ ~lastStep'.escaped
           /\ lastStep'.sent = <<>>
           /\ lastStep'.wrote = <<>>
           /\ irc' = irc
           /\ wsState' = "OPEN"]_vars

IsErrorEvent(e) == e.type = "error"

C27_NoReconnect ==
    [][(ircCreated' # ircCreated \/ (ircSocket' = "connecting" /\ ircSocket # "connecting"))
       => /\ lastStep'.op = "message"
          /\ lastStep'.msg.type = "connect"
          /\ ircCreated' = ircCreated + 1
          /\ irc' = ircCreated']_vars

\* the only upstream of the session has closed or failed, a later command has been handled, and
\* no second socket has been opened
C27_Witness ==
    /\ irc # 0
    /\ ircSocket = "closed"
    /\ ircCreated = 1
    /\ lastStep.op = "message"
    /\ lastStep.msg = RawMessage(ClientRawLine)

\* C28: messages of a session are handed to handleCommand in the order they arrived,
\* also when they are decrypted first: the message onMessage resumes with is the
\* oldest of those whose decryption is in progress
C28_ArrivalOrder ==
    [][lastStep'.op = "resume" =>
           /\ lastStep'.msg = pending[1].msg
           /\ pending' = Tail(pending)]_vars

\* C29: when WEBIRC is configured and the upstream connection is plain TCP, no WEBIRC
\* line is written to the socket, and the handler of the socket's connect event emits
\* an error event instead
C29_NoWebircWithoutTls ==
    (options.webirc # <<>> /\ ~options.tls) =>
        /\ \A k \in 1..Len(ircClient.written) :
               RegistrationKind(ircClient.written[k]) # "WEBIRC"
        /\ (\E k \in 1..Len(ircClient.events) : ircClient.events[k].type = "socket_connected")
               => \E k \in 1..Len(ircClient.events) : IsErrorEvent(ircClient.events[k])

\* --------------------------------------------- character sets on the data path of
\* an IrcClient: connect(options) with the encoding name of the connect command

\* names of character sets: two that iconv-lite knows and one it does not
EncodingNames == {"utf8", "latin1", "bogus"}

CodecOptions == {MakeOptions(CleanNick, <<>>, <<>>, FALSE, e) : e \in EncodingNames}

\* ":\xE9", a line with a letter outside ASCII
LineAccent == <<58, 233>>

CodecLines == {LineNotice, LineAccent}

CodecNext ==
    \/ \E opts \in CodecOptions : IrcClientConnect(opts)
    \/ SocketConnectEvent
    \/ \E line \in CodecLines : SocketDataEvent(line)
    \/ SocketCloseEvent
    \/ SendRawLine
    \/ IrcClientQuit
    \/ PingIntervalTick

SpecCodec == IrcInit /\ [][CodecNext]_vars

\* the character set in use when the configured name is unknown: UTF-8
EffectiveEncoding == IF encodingExists(characterEncoding) THEN characterEncoding ELSE "utf8"

\* C30: decoding and encoding never raise on the data path of an upstream, whatever
\* encoding name the connect command carried: no handler of the IrcClient ends in an
\* exception, every line received is emitted as the decoding of its bytes and every
\* line sent is written as its encoding, in the configured character set or, if its
\* name is unknown, in UTF-8
C30_NeverRaises ==
    \A k \in 1..Len(ircClient.events) :
        LET e == ircClient.events[k]
        IN /\ e # Exception
           /\ (e.type = "raw" /\ e.fromServer) =>
                  \E j \in 1..Len(TerminatedLines(stream)) :
                      e.line = decodeBuffer(TerminatedLines(stream)[j], EffectiveEncoding)
           /\ (e.type = "raw" /\ ~e.fromServer /\ writable) =>
                  \E j \in 1..Len(ircClient.written) :
                      ircClient.written[j] = encodeString(e.line \o IRC_LINE_ENDING,
                                                          EffectiveEncoding)

\* --------------------------------------------------------------- stop()

\* stop() runs in this step
StopStep == ~stopped /\ stopped'

\* C31: after stop() every session that was in the registry has had its upstream
\* quit with the default quit message (the call stop() makes is the last quit of
\* the session, and the session lets the upstream go) and its WebSocket closed;
\* no upstream socket of any session is left connecting or open; the registry and
\* the IP counter table are empty and stay empty when the 'close' events of the
\* WebSockets arrive afterwards.
C31_StopTeardown ==
    /\ [](stopped =>
            /\ connectedClients = {}
            /\ connectionsPerIp = EmptyMap
            /\ \A id \in DOMAIN sessions :
                  /\ sessions[id].destroyed
                  /\ sessions[id].ws \in {"CLOSING", "CLOSED"}
                  /\ sessions[id].irc = 0
                  /\ \A u \in DOMAIN sessions[id].sockets :
                        sessions[id].sockets[u] \notin {"connecting", "open"})
    /\ [][StopStep =>
            \A id \in DOMAIN sessions :
                (ClientOf(id) \in connectedClients /\ sessions[id].irc # 0)
                    => sessions'[id].quits =
                           Append(sessions[id].quits,
                                  QuitCall("teardown", "default", sessions[id].irc))]_vars

\* stop() ran with two sessions registered, one of them with an upstream; the
\* WebSocket of that one has closed since, finding both tables empty, and the
\* other's 'close' event is still to come
C31_Witness ==
    /\ stopped
    /\ \E id, other \in DOMAIN sessions :
          /\ id # other
          /\ sessions[id].ws = "CLOSED"
          /\ sessions[id].decrements = 0
          /\ sessions[id].removals = 1
          /\ Len(QuitsBy(sessions[id], "teardown")) = 1
          /\ sessions[other].ws = "CLOSING"
          /\ sessions[other].removals = 1

\* ------------------------------------------- the WEBIRC hostname of a session:
\* ipToHex, expandIPv6 and resolveClientHostname of src/src/webirc.ts, called by
\* ClientConnection.handleConnect with the clientIp the gateway resolved. Text is
\* a sequence of one-character strings.

\* how many of the 8 groups of an IPv6 peer address are not zero
MaxNonZeroGroups == 2

HexDigits == <<"0", "1", "2", "3", "4", "5", "6", "7", "8", "9", "a", "b", "c", "d", "e", "f">>

IsDigit(c, radix) == \E v \in 1..radix : HexDigits[v] = c

DigitValue(c) == (CHOOSE v \in 1..16 : HexDigits[v] = c) - 1

\* Number.prototype.toString(radix)
RECURSIVE NumberToString(_, _)
NumberToString(n, radix) ==
    IF n < radix THEN <<HexDigits[n + 1]>>
    ELSE Append(NumberToString(n \div radix, radix), HexDigits[(n % radix) + 1])

\* parseInt(text, 10) of a text that begins with a digit: the digits up to the
\* first character that is none
RECURSIVE ParseDigits(_, _, _)
ParseDigits(text, i, acc) ==
    IF i > Len(text) \/ ~IsDigit(text[i], 10) THEN acc
    ELSE ParseDigits(text, i + 1, acc * 10 + DigitValue(text[i]))

parseInt(text) == ParseDigits(text, 1, 0)

\* String.prototype.padStart(targetLength, '0')
RECURSIVE padStart(_, _)
padStart(text, targetLength) ==
    IF Len(text) >= targetLength THEN text ELSE padStart(<<"0">> \o text, targetLength)

\* String.prototype.split(separator)
RECURSIVE SplitFrom(_, _, _, _)
SplitFrom(text, separator, i, part) ==
    IF i > Len(text) THEN <<part>>
    ELSE IF text[i] = separator THEN <<part>> \o SplitFrom(text, separator, i + 1, <<>>)
    ELSE SplitFrom(text, separator, i + 1, Append(part, text[i]))

split(text, separator) == SplitFrom(text, separator, 1, <<>>)

\* Array.prototype.join(separator)
RECURSIVE join(_, _)
join(parts, separator) ==
    IF parts = <<>> THEN <<>>
    ELSE IF Len(parts) = 1 THEN parts[1]
    ELSE parts[1] \o separator \o join(Tail(parts), separator)

\* Array.prototype.indexOf(''), counted from 0, -1 when no part is empty
indexOfEmpty(parts) ==
    IF \E i \in 1..Len(parts) : parts[i] = <<>>
    THEN (CHOOSE i \in 1..Len(parts) :
              parts[i] = <<>> /\ \A j \in 1..(i - 1) : parts[j] # <<>>) - 1
    ELSE -1

\* net.isIPv4: four decimal numbers of 0..255 without leading zeros
isIPv4(ip) ==
    LET parts == split(ip, ".")
    IN  /\ Len(parts) = 4
        /\ \A i \in 1..4 :
              /\ Len(parts[i]) \in 1..3
              /\ \A k \in 1..Len(parts[i]) : IsDigit(parts[i][k], 10)
              /\ parseInt(parts[i]) <= 255
              /\ NumberToString(parseInt(parts[i]), 10) = parts[i]

\* net.isIPv6, on the addresses of the model, which are all valid: the text has a
\* colon and consists of hex digits, colons and the dots of an embedded IPv4 part
isIPv6(ip) ==
    /\ \E i \in 1..Len(ip) : ip[i] = ":"
    /\ \A i \in 1..Len(ip) : IsDigit(ip[i], 16) \/ ip[i] \in {":", "."}

\* expandIPv6
expandIPv6(ip) ==
    LET parts == split(ip, ":")
        emptyIndex == indexOfEmpty(parts)
        before == SubSeq(parts, 1, emptyIndex)
        after == SelectSeq(SubSeq(parts, emptyIndex + 2, Len(parts)), LAMBDA p : p # <<>>)
        missing == 8 - Len(before) - Len(after)
        expanded == IF emptyIndex # -1
                    THEN before \o [k \in 1..missing |-> <<"0", "0", "0", "0">>] \o after
                    ELSE parts
    IN  join([k \in 1..Len(expanded) |-> padStart(expanded[k], 4)], <<":">>)

\* ipToHex
ipToHex(ip) ==
    IF isIPv4(ip)
    THEN LET octets == split(ip, ".")
         IN  join([k \in 1..Len(octets) |->
                      padStart(NumberToString(parseInt(octets[k]), 16), 2)], <<>>)
    ELSE IF isIPv6(ip)
    THEN SelectSeq(expandIPv6(ip), LAMBDA c : c # ":")
    ELSE ip

WebSuffix == <<".", "w", "e", "b">>

\* resolveClientHostname
resolveClientHostname(ip) == ipToHex(ip) \o WebSuffix

\* the octet values and group values the peer addresses of the model are made of
OctetValues == {0, 9, 16, 255}

GroupValues == {0, 1, 2748, 65535}

V4Addresses == {V4(a, b, c, d) : a, b, c, d \in OctetValues}

NonZero(groups) == Cardinality({k \in DOMAIN groups : groups[k] # 0})

V6Addresses ==
    {V6(g) : g \in {h \in [1..8 -> GroupValues] : NonZero(h) <= MaxNonZeroGroups}}

\* the IPv4-mapped addresses ::ffff:a.b.c.d
MappedAddresses ==
    {V6(<<0, 0, 0, 0, 0, 65535, a * 256 + b, c * 256 + d>>) : a, b, c, d \in {0, 9, 255}}

DottedText(octets) ==
    join([k \in 1..Len(octets) |-> NumberToString(octets[k], 10)], <<".">>)

GroupTexts(groups) == [k \in 1..Len(groups) |-> NumberToString(groups[k], 16)]

FullText(groups) == join(GroupTexts(groups), <<":">>)

\* the text with '::' in the place of the groups i..j, which are zero
ShortText(groups, i, j) ==
    join(GroupTexts(SubSeq(groups, 1, i - 1)), <<":">>) \o <<":", ":">>
        \o join(GroupTexts(SubSeq(groups, j + 1, 8)), <<":">>)

\* the text Node gives an IPv4-mapped address: the last 32 bits as a dotted quad
MappedText(groups) ==
    <<":", ":", "f", "f", "f", "f", ":">>
        \o DottedText(<<groups[7] \div 256, groups[7] % 256,
                        groups[8] \div 256, groups[8] % 256>>)

\* the texts of an address: an IPv6 address in full, with any one run of zero
\* groups shortened to '::' (at the start, in the middle, at the end), and in the
\* mapped form when it is IPv4-mapped
TextsOf(address) ==
    IF address.kind = "ipv4" THEN {DottedText(address.octets)}
    ELSE LET g == address.groups
         IN  {FullText(g)}
             \cup {ShortText(g, i, j) : <<i, j>> \in
                      {r \in (1..8) \X (1..8) :
                          r[1] <= r[2] /\ \A k \in r[1]..r[2] : g[k] = 0}}
             \cup (IF address \in MappedAddresses THEN {MappedText(g)} ELSE {})

Peers ==
    UNION {{[address |-> a, text |-> t] : t \in TextsOf(a)} :
              a \in V4Addresses \cup V6Addresses \cup MappedAddresses}

\* a WebSocket is admitted from a peer: the ClientConnection keeps its address
SessionFromPeer(peer) ==
    /\ webircIp = <<>>
    /\ peerAddress' = peer.address
    /\ webircIp' = peer.text
    /\ webircHostname' = <<>>
    /\ UNCHANGED <<gwVars, queryVars, sessionVars, framingVars, teardownVars, timerVars>>

\* handleConnect builds the WEBIRC parameters of the session
BuildWebircParams ==
    /\ webircIp # <<>>
    /\ webircHostname = <<>>
    /\ webircHostname' = resolveClientHostname(webircIp)
    /\ UNCHANGED <<peerAddress, webircIp>>
    /\ UNCHANGED <<gwVars, queryVars, sessionVars, framingVars, teardownVars, timerVars>>

HostnameInit ==
    /\ variant = "webirc.ts"
    /\ allowedOrigins = <<>>
    /\ trustProxy = FALSE
    /\ connectedClients = {}
    /\ connectionsPerIp = EmptyMap
    /\ clientIdCounter = 0
    /\ openSockets = {}
    /\ stopped = FALSE
    /\ lastReq = NoRequest
    /\ lastResp = NoResponse
    /\ QueryIdle
    /\ SessionIdle
    /\ FramingIdle
    /\ TeardownIdle
    /\ HostnameIdle
    /\ TimersIdle

HostnameNext ==
    \/ \E peer \in Peers : SessionFromPeer(peer)
    \/ BuildWebircParams

SpecHostname == HostnameInit /\ [][HostnameNext]_vars

\* the hex digits of an address: two per octet, or four per group, in order
AddressDigits(address) ==
    IF address.kind = "ipv4"
    THEN join([k \in 1..4 |-> padStart(NumberToString(address.octets[k], 16), 2)], <<>>)
    ELSE join([k \in 1..8 |-> padStart(NumberToString(address.groups[k], 16), 4)], <<>>)

\* C32: the hostname of a valid IPv4 address is exactly 8 hex digits, two per
\* octet, followed by '.web'; the hostname of a valid IPv6 address, whether its
\* text is in full, has '::' at the start, in the middle or at the end, or is in
\* the IPv4-mapped form, is exactly 32 hex digits, four per group, followed by
\* '.web'. The digits are those of the address, so that distinct addresses get
\* distinct hostnames.
C32_HostnameHex ==
    webircHostname # <<>> =>
        LET n == Len(webircHostname) - Len(WebSuffix)
            digits == SubSeq(webircHostname, 1, n)
        IN  /\ n = (IF peerAddress.kind = "ipv4" THEN 8 ELSE 32)
            /\ SubSeq(webircHostname, n + 1, Len(webircHostname)) = WebSuffix
            /\ \A i \in 1..n : IsDigit(digits[i], 16)
            /\ digits = AddressDigits(peerAddress)

\* ------------------------------------------------ the timers of an IrcClient in
\* time: the keepalive interval, the dead-peer timeout and the establishment
\* timeout of src/src/irc-client.ts (variant "irc-client.ts") and the ping interval
\* and ping timeout of src/src/webirc.ts (variant "webirc.ts"). Time passes between
\* the handlers, never past a timer that is due; every handler is observed alone

PING_INTERVAL_MS == 30000
CONNECTION_TIMEOUT_MS == 30000
PONG_TIMEOUT_MS == 60000
\* options.pingInterval ?? 30 and options.pingTimeout ?? 120, in seconds
DefaultPingInterval == 30
DefaultPingTimeout == 120

\* the longest stretch of time in which nothing is observed
TimeStep == 15000

PingIntervalMs ==
    IF variant = "irc-client.ts" THEN PING_INTERVAL_MS ELSE DefaultPingInterval * 1000

DeadPeerTimeoutMs ==
    IF variant = "irc-client.ts" THEN PONG_TIMEOUT_MS ELSE DefaultPingTimeout * 1000

\* createSocket of src/irc-client.ts sets the timeout of the socket, and
\* handleSocketConnected clears it; src/webirc.ts sets none
EstablishmentTimeoutSet == untilEstablished >= 0

\* the IrcClient at the start of a handler, with nothing emitted or written yet
Wire == [Fresh EXCEPT !.written = <<>>]

notTimers == <<gwVars, queryVars, sessionVars, teardownVars, hostnameVars>>

\* the last two handlers that ran
KeepCall(op) == calls' = IF Len(calls) < 2 THEN Append(calls, op) ELSE <<calls[2], op>>

LastCall == IF calls = <<>> THEN "none" ELSE calls[Len(calls)]

\* IrcClient.connect(options) on a client whose last socket, if any, has closed
KeepaliveConnect(opts) ==
    /\ ircSocket \in {"none", "closed"}
    /\ staleSockets = 0
    /\ ircClient' = [Wire EXCEPT !.timeoutArmed = FALSE,
                                 !.receiveBuffer = <<>>,
                                 !.registered = FALSE]
    /\ pingIntervalTimer' = FALSE
    /\ untilPing' = 0
    /\ untilTimeout' = 0
    /\ untilEstablished' = IF variant = "irc-client.ts" THEN CONNECTION_TIMEOUT_MS ELSE -1
    /\ peerAlive' = TRUE
    /\ ircSocket' = "connecting"
    /\ writable' = TRUE
    /\ options' = opts
    /\ characterEncoding' = opts.encoding
    /\ stream' = <<>>
    /\ consumed' = 0
    /\ chunkStart' = 0
    /\ KeepCall("connect")
    /\ UNCHANGED <<staleSockets, opCount>>
    /\ UNCHANGED notTimers

\* handleSocketConnected that leaves the timeout of the socket set
KeepaliveSocketConnectKeepsTimeout ==
    /\ ircSocket = "connecting"
    /\ ircClient' = IF variant = "irc-client.ts"
                    THEN handleSocketConnected(Wire, options)
                    ELSE onSocketConnect(Wire, options)
    /\ pingIntervalTimer' = TRUE
    /\ untilPing' = PingIntervalMs
    /\ ircSocket' = "open"
    /\ KeepCall("socket connect")
    /\ UNCHANGED <<stream, consumed, chunkStart, characterEncoding, writable, options,
                   staleSockets, opCount, untilTimeout, untilEstablished, peerAlive>>
    /\ UNCHANGED notTimers

\* the 'connect' event of the socket: handleSocketConnected with startPingTimer,
\* onSocketConnect with startPingInterval
KeepaliveSocketConnect ==
    /\ ircSocket = "connecting"
    /\ ircClient' = IF variant = "irc-client.ts"
                    THEN handleSocketConnected(Wire, options)
                    ELSE onSocketConnect(Wire, options)
    /\ pingIntervalTimer' = TRUE
    /\ untilPing' = PingIntervalMs
    /\ untilEstablished' = -1
    /\ ircSocket' = "open"
    /\ KeepCall("socket connect")
    /\ UNCHANGED <<stream, consumed, chunkStart, characterEncoding, writable, options,
                   staleSockets, opCount, untilTimeout, peerAlive>>
    /\ UNCHANGED notTimers

\* the 'timeout' event of the socket (createSocket): the socket is destroyed with
\* an error, which also ends its timeout
KeepaliveSocketTimeout ==
    /\ EstablishmentTimeoutSet
    /\ untilEstablished = 0
    /\ untilEstablished' = -1
    /\ ircSocket' = IF Live(ircSocket) THEN "destroyed" ELSE ircSocket
    /\ writable' = FALSE
    /\ ircClient' = Wire
    /\ KeepCall("establishment timeout")
    /\ UNCHANGED <<stream, consumed, chunkStart, characterEncoding, options,
                   pingIntervalTimer, staleSockets, opCount, untilPing, untilTimeout,
                   peerAlive>>
    /\ UNCHANGED notTimers

\* a 'data' event that leaves the dead-peer timeout as the last PING armed it
KeepaliveDataKeepsTimeout(line) ==
    /\ ircSocket = "open"
    /\ peerAlive
    /\ LET data == encodeString(line \o IRC_LINE_ENDING, characterEncoding)
       IN /\ ircClient' = [IF variant = "irc-client.ts"
                           THEN handleIncomingData(Wire, data)
                           ELSE onData(Wire, data)
                             EXCEPT !.timeoutArmed = ircClient.timeoutArmed]
          /\ stream' = data
          /\ consumed' = Len(data)
    /\ chunkStart' = 0
    /\ KeepCall("data")
    /\ UNCHANGED <<characterEncoding, writable, ircSocket, options, pingIntervalTimer,
                   staleSockets, opCount, untilPing, untilTimeout, untilEstablished,
                   peerAlive>>
    /\ UNCHANGED notTimers

\* a 'data' event with one whole line of a server that is alive: handleIrcLine
\* clears the dead-peer timeout, onData arms it anew
KeepaliveData(line) ==
    /\ ircSocket = "open"
    /\ peerAlive
    /\ LET data == encodeString(line \o IRC_LINE_ENDING, characterEncoding)
       IN /\ ircClient' = IF variant = "irc-client.ts"
                          THEN handleIncomingData(Wire, data)
                          ELSE onData(Wire, data)
          /\ stream' = data
          /\ consumed' = Len(data)
    /\ chunkStart' = 0
    /\ untilTimeout' = IF variant = "webirc.ts" THEN DeadPeerTimeoutMs
                       ELSE IF ircClient'.timeoutArmed THEN untilTimeout ELSE 0
    /\ KeepCall("data")
    /\ UNCHANGED <<characterEncoding, writable, ircSocket, options, pingIntervalTimer,
                   staleSockets, opCount, untilPing, untilEstablished, peerAlive>>
    /\ UNCHANGED notTimers

\* the server stops answering without closing the connection: it is half open
PeerDies ==
    /\ ircSocket = "open"
    /\ peerAlive
    /\ peerAlive' = FALSE
    /\ UNCHANGED <<framingVars, untilPing, untilTimeout, untilEstablished>>
    /\ UNCHANGED notTimers

\* time passes, up to the next timer that is due
TimePasses ==
    /\ pingIntervalTimer \/ ircClient.timeoutArmed \/ EstablishmentTimeoutSet
    /\ pingIntervalTimer => untilPing > 0
    /\ ircClient.timeoutArmed => untilTimeout > 0
    /\ untilEstablished # 0
    /\ LET d == Min(TimeStep,
                    Min(IF pingIntervalTimer THEN untilPing ELSE TimeStep,
                        Min(IF ircClient.timeoutArmed THEN untilTimeout ELSE TimeStep,
                            IF EstablishmentTimeoutSet THEN untilEstablished
                            ELSE TimeStep)))
       IN /\ untilPing' = IF pingIntervalTimer THEN untilPing - d ELSE 0
          /\ untilTimeout' = IF ircClient.timeoutArmed THEN untilTimeout - d ELSE 0
          /\ untilEstablished' = IF EstablishmentTimeoutSet THEN untilEstablished - d ELSE -1
    /\ UNCHANGED <<framingVars, peerAlive>>
    /\ UNCHANGED notTimers

\* a tick of the keepalive interval: startPingTimer sends PING, clears the dead-peer
\* timeout and arms it anew; startPingInterval sends PING
KeepaliveTick ==
    /\ pingIntervalTimer
    /\ untilPing = 0
    /\ ircClient' = IF variant = "irc-client.ts"
                    THEN [IrcClientSend(Wire, PingCommand) EXCEPT !.timeoutArmed = TRUE]
                    ELSE sendRaw(Wire, PingCommand)
    /\ untilPing' = PingIntervalMs
    /\ untilTimeout' = IF variant = "irc-client.ts" THEN DeadPeerTimeoutMs ELSE untilTimeout
    /\ KeepCall("ping")
    /\ UNCHANGED <<stream, consumed, chunkStart, characterEncoding, writable, ircSocket,
                   options, pingIntervalTimer, staleSockets, opCount, untilEstablished,
                   peerAlive>>
    /\ UNCHANGED notTimers

\* the dead-peer timeout fires: pongTimeoutTimer destroys the socket with an error
\* and keeps it, pingTimeout emits the error and calls destroy()
KeepaliveTimeout ==
    /\ ircClient.timeoutArmed
    /\ untilTimeout = 0
    /\ IF variant = "irc-client.ts"
       THEN /\ ircClient' = [Wire EXCEPT !.timeoutArmed = FALSE]
            /\ ircSocket' = IF Live(ircSocket) THEN "destroyed" ELSE ircSocket
            /\ UNCHANGED <<pingIntervalTimer, staleSockets, untilPing>>
       ELSE /\ ircClient' = cleanup(Emit(Wire, "error"))
            /\ ircSocket' = "none"
            /\ pingIntervalTimer' = FALSE
            /\ untilPing' = 0
            /\ staleSockets' = IF ClosePending(ircSocket) THEN staleSockets + 1
                               ELSE staleSockets
    /\ writable' = FALSE
    /\ untilTimeout' = 0
    /\ KeepCall("dead-peer timeout")
    /\ UNCHANGED <<stream, consumed, chunkStart, characterEncoding, options, opCount,
                   untilEstablished, peerAlive>>
    /\ UNCHANGED notTimers

\* the 'close' event of a socket that was destroyed with an error, with the 'error'
\* event before it: handleSocketClosed stops both timers
KeepaliveDestroyedClose ==
    /\ ircSocket = "destroyed"
    /\ ircClient' = Closed(Emit(Wire, "error"))
    /\ pingIntervalTimer' = FALSE
    /\ untilPing' = 0
    /\ untilTimeout' = 0
    /\ ircSocket' = "closed"
    /\ writable' = FALSE
    /\ UNCHANGED <<stream, consumed, chunkStart, characterEncoding, options, staleSockets,
                   calls, opCount, untilEstablished, peerAlive>>
    /\ UNCHANGED notTimers

\* the 'close' event of the socket destroy() let go: onSocketClose
KeepaliveStaleClose ==
    /\ staleSockets > 0
    /\ staleSockets' = staleSockets - 1
    /\ ircClient' = Closed(Wire)
    /\ pingIntervalTimer' = FALSE
    /\ untilPing' = 0
    /\ untilTimeout' = 0
    /\ UNCHANGED <<stream, consumed, chunkStart, characterEncoding, writable, ircSocket,
                   options, calls, opCount, untilEstablished, peerAlive>>
    /\ UNCHANGED notTimers

\* the server closes the connection
KeepalivePeerClose ==
    /\ ircSocket = "open"
    /\ peerAlive
    /\ ircClient' = Closed(Wire)
    /\ pingIntervalTimer' = FALSE
    /\ untilPing' = 0
    /\ untilTimeout' = 0
    /\ ircSocket' = "closed"
    /\ writable' = FALSE
    /\ KeepCall("peer close")
    /\ UNCHANGED <<stream, consumed, chunkStart, characterEncoding, options, staleSockets,
                   opCount, untilEstablished, peerAlive>>
    /\ UNCHANGED notTimers

KeepaliveInit == IrcInit

KeepaliveNext ==
    \/ \E opts \in ConnectOptions : KeepaliveConnect(opts)
    \/ KeepaliveSocketConnect
    \/ KeepaliveSocketTimeout
    \/ \E line \in LifecycleLines : KeepaliveData(line)
    \/ PeerDies
    \/ TimePasses
    \/ KeepaliveTick
    \/ KeepaliveTimeout
    \/ KeepaliveDestroyedClose
    \/ KeepaliveStaleClose
    \/ KeepalivePeerClose

\* time passes, and a timer that is due fires; a destroyed socket emits 'close'
KeepaliveFairness ==
    /\ WF_vars(TimePasses)
    /\ WF_vars(KeepaliveSocketTimeout)
    /\ WF_vars(KeepaliveTick)
    /\ WF_vars(KeepaliveTimeout)
    /\ WF_vars(KeepaliveDestroyedClose)
    /\ WF_vars(KeepaliveStaleClose)

SpecKeepalive == KeepaliveInit /\ [][KeepaliveNext]_vars /\ KeepaliveFairness

IsCloseEvent(e) == e.type = "close"

\* the keepalive has sent a PING on a connected upstream whose server sends
\* nothing from now on
PingedSilentPeer == ircSocket = "open" /\ ~peerAlive /\ LastCall = "ping"

\* the dead-peer timeout has fired and the 'close' event of the socket it destroyed
\* has reached the listeners of the IrcClient
DeadPeerClosed ==
    /\ LastCall = "dead-peer timeout"
    /\ ircSocket \in {"none", "closed"}
    /\ staleSockets = 0
    /\ \E k \in 1..Len(ircClient.events) : IsCloseEvent(ircClient.events[k])

\* C33: once the keepalive has sent a PING on a connected upstream and the server
\* sends no data from then on, the dead-peer timeout eventually fires, the socket
\* is destroyed and its error and close reach the session, although the keepalive
\* interval keeps ticking.
C33_DeadPeerDetected == PingedSilentPeer ~> DeadPeerClosed

Released == ircSocket \in {"none", "ending", "ended", "closed"}

\* C35: once quit() or destroy() has been called on an IrcClient, or its socket
\* has closed or errored, neither the keepalive interval nor the dead-peer timeout
\* is armed in any later state until the next connect, also when quit() was
\* called on a socket that was still connecting and 'connect' arrives afterwards.
C35_NoTimerAfterRelease ==
    Released => (~pingIntervalTimer /\ ~ircClient.timeoutArmed)

\* a connect command replaces the upstream of the session in this step
UpstreamReplaced == irc # 0 /\ irc' # 0 /\ irc' # irc

\* C36: a connect command on a session that has an upstream destroys the prior
\* upstream (its socket is destroyed and let go, its timers are stopped) and opens
\* the new socket with an empty receive buffer, unregistered and without timers;
\* what the new IrcClient parses is made of the bytes of its own connection only:
\* its receive buffer is always what follows the last line end of the bytes the
\* current socket has delivered.
C36_ConnectSupersedes ==
    /\ [][UpstreamReplaced =>
             /\ staleSockets' = staleSockets + (IF ClosePending(ircSocket) THEN 1 ELSE 0)
             /\ ircSocket' = "connecting"
             /\ ircClient'.receiveBuffer = <<>>
             /\ ~ircClient'.registered
             /\ ~ircClient'.timeoutArmed
             /\ ~pingIntervalTimer'
             /\ consumed' = 0]_vars
    /\ [](irc # 0 =>
             ircClient.receiveBuffer = UnterminatedTail(SubSeq(stream, 1, consumed)))

\* the second upstream of the session is connected and has parsed the first bytes
\* of its own stream, while the 'close' event of the socket of the first, which the
\* connect command destroyed, is still to come
C36_Witness ==
    /\ irc = 2
    /\ ircSocket = "open"
    /\ staleSockets > 0
    /\ lastStep.op = "data"
    /\ chunkStart = 0
    /\ consumed > 0

\* ---------------------------------------------------------------------------
\* The establishment timeout of src/irc-client.ts
\* ---------------------------------------------------------------------------

\* the 'connect' event of the socket is handled
ConnectStep == ircSocket = "connecting" /\ ircSocket' = "open"

\* the 'timeout' event of the socket is handled
EstablishmentTimeoutStep == calls' # calls /\ LastCall' = "establishment timeout"

\* the establishment timeout has destroyed the socket, and the 'error' and 'close'
\* events of the socket have reached the listeners of the IrcClient
TimedOutClosed ==
    /\ LastCall = "establishment timeout"
    /\ ircSocket = "closed"
    /\ \E k \in 1..Len(ircClient.events) :
           /\ ircClient.events[k].type = "error"
           /\ \E j \in (k + 1)..Len(ircClient.events) : IsCloseEvent(ircClient.events[j])

SupersededClosePending == opCount = 2 /\ irc = 2 /\ staleSockets > 0

\* the 'close' event of the socket of the superseded upstream is handled
SupersededCloseStep == SupersededClosePending /\ staleSockets' < staleSockets

\* C38: after a connect command has superseded an upstream, the late 'close' of
\* the superseded socket sends nothing to the browser (the events the browser gets
\* carry no mark of the upstream they come from, so whatever is sent is taken for
\* an event of the current upstream) and leaves the keepalive interval, the
\* dead-peer timeout and the socket of the new connection as they are.
C38_SupersededSilent ==
    [][SupersededCloseStep => /\ lastStep'.sent = <<>>
                              /\ pingIntervalTimer' = pingIntervalTimer
                              /\ ircClient'.timeoutArmed = ircClient.timeoutArmed
                              /\ ircSocket' = ircSocket
                              /\ irc' = irc]_vars

\* ---------------------------------------------------------------------------
\* Messages in decryption when the session is destroyed
\* ---------------------------------------------------------------------------

\* C39: once the destroyed flag of a session is set the session holds no upstream
\* IrcClient and creates none: a message whose decryption began before destroy()
\* and ends after it opens no upstream connection.
C39_DestroyedIsFinal ==
    /\ [](destroyed => irc = 0)
    /\ [][destroyed => ircCreated' = ircCreated]_vars

\* ---------------------------------------------------------------------------
\* Rejected upgrade requests
\* ---------------------------------------------------------------------------

\* an upgrade request is answered in this step
UpgradeAnswered == <<lastReq', lastResp'>> # <<lastReq, lastResp>>

\* the request carries an Origin that the origin check of handleUpgrade refuses
OriginRefused == lastReq.origin # NoOrigin /\ ~isOriginAllowed(lastReq.origin)

\* the request found its IP at the per-IP cap and the registry at the global cap
ExceedsBothCaps ==
    /\ lastResp.ipSessionsBefore >= MaxConnectionsPerIp
    /\ lastResp.sizeBefore >= MaxClients

\* C40: a rejected upgrade request (404, 403, 429 or 503) leaves the registry of
\* sessions and the table of counters per IP as they were, and the answer is that
\* of the first check that fails in the order path, origin, per-IP cap, global
\* cap: a wrong path gives 404 whatever else holds, a refused origin on the right
\* path gives 403 (handleUpgrade; handleWebSocketUpgrade has no origin check), a
\* full IP gives 429 also when the registry is full, and 503 is answered only for
\* a request whose IP is below its cap.
C40_RejectionOrder ==
    /\ [][(UpgradeAnswered /\ lastResp'.status \in Rejections) =>
              /\ connectedClients' = connectedClients
              /\ connectionsPerIp' = connectionsPerIp]_vars
    /\ [](Handled =>
              /\ (lastResp.status = 404) <=> (lastReq.path # ConfigPath)
              /\ (lastResp.status = 403) <=>
                     (variant = "A" /\ lastReq.path = ConfigPath /\ OriginRefused)
              /\ (lastResp.status = 429) <=>
                     /\ lastResp.status \notin {404, 403}
                     /\ lastResp.ipSessionsBefore >= MaxConnectionsPerIp
              /\ (lastResp.status = 503) <=>
                     /\ lastResp.status \notin {404, 403}
                     /\ lastResp.ipSessionsBefore < MaxConnectionsPerIp
                     /\ lastResp.sizeBefore >= MaxClients)

\* a request on the configured path, from an IP at its cap while the registry is
\* full, was answered 429 and both tables are what they were
C40_Witness ==
    /\ lastResp.status = 429
    /\ ExceedsBothCaps
    /\ ~lastResp.created
    /\ Cardinality(connectedClients) = lastResp.sizeBefore
    /\ MapGet(connectionsPerIp, lastResp.clientIp, 0) = lastResp.ipSessionsBefore

====
